---- MODULE Spec2Model ----
(***************************************************************************)
(* Model of the junction layout generator (phidl_bridge.py and             *)
(* dose_chip/dose_chip_generator.py).                                      *)
(*                                                                         *)
(* Lengths are integers in nanometres (1 um = 1000), so that every half    *)
(* width the code computes (w/2, uc/2, (uc/2)/2) is exact for the inputs   *)
(* used.  Angles are integer degrees, multiples of 45; cos and sin are     *)
(* fixed point with four decimals, exact on multiples of 90.               *)
(***************************************************************************)
EXTENDS Integers, Sequences, FiniteSets, TLC

VARIABLES
    LAYER_PIN,      \* phidl_bridge.LAYER_PIN, the module global
    LAYER_GAP,      \* phidl_bridge.LAYER_GAP, the module global
    call,           \* the last junction-level call: its arguments, the
                    \* layer context found at entry, and what it returned
    dose_table,     \* DoseChipGenerator.dose_table: (layer, dose, type)
    dose_arrays,    \* DoseChipGenerator._dose_arrays
    chip,           \* DoseChipGenerator.chip: what each add_* call placed
    files,          \* the files on disk, by name
    grid,           \* a create_dose_test_grid call: arguments and result
    path,           \* the drawing target of a path: a Structure, a
                    \* TwoLayerManager or a StateTracker
    last_op         \* the last path operation: the state it started from,
                    \* its arguments and the polygons it added

layerVars == <<LAYER_PIN, LAYER_GAP, call>>
doseVars == <<dose_table, dose_arrays, chip, files>>
pathVars == <<path, last_op>>
vars == <<layerVars, doseVars, grid, pathVars>>

(***************************************************************************)
(* Program constants                                                       *)
(***************************************************************************)
DEFAULT_LAYER_PIN == 1      \* value of LAYER_PIN when the defs are compiled
DEFAULT_LAYER_GAP == 2      \* value of LAYER_GAP when the defs are compiled
None == -1                  \* Python None for an omitted width / radius
bar_w == 5000
taper_l == 2000
thin_l == 800
uc_default == 300
default_right_width == 2000

(***************************************************************************)
(* Arithmetic helpers                                                      *)
(***************************************************************************)
Half(x) == x \div 2
Max(a, b) == IF a >= b THEN a ELSE b
Norm(d) == d % 360

\* np.cos(np.radians(d)) scaled by 10000
Cos(d) ==
    CASE Norm(d) = 0   -> 10000
      [] Norm(d) = 45  -> 7071
      [] Norm(d) = 90  -> 0
      [] Norm(d) = 135 -> -7071
      [] Norm(d) = 180 -> -10000
      [] Norm(d) = 225 -> -7071
      [] Norm(d) = 270 -> 0
      [] Norm(d) = 315 -> 7071

\* np.sin(np.radians(d)) scaled by 10000
Sin(d) == Cos(d - 90)

\* (length * cos(theta), length * sin(theta))
AlongTransposed(length, d) ==
    <<(length * Sin(d)) \div 10000, (length * Cos(d)) \div 10000>>

Along(length, d) ==
    <<(length * Cos(d)) \div 10000, (length * Sin(d)) \div 10000>>

VAdd(p, q) == <<p[1] + q[1], p[2] + q[2]>>
VSub(p, q) == <<p[1] - q[1], p[2] - q[2]>>

SeqToSet(s) == {s[i] : i \in 1..Len(s)}

(***************************************************************************)
(* Polygons.  A four-point polygon emitted by a straight or a taper is     *)
(* kept by the data its corners are computed from: start point p, heading  *)
(* dir, length len, and the perpendicular offsets [a0, b0] at the start    *)
(* and [a1, b1] at the end.  An arc ribbon keeps its centre in p, its      *)
(* start radial angle in dir, its signed sweep in len and its radius in r. *)
(***************************************************************************)
Quad(layer, p, d, length, a0, b0, a1, b1) ==
    [kind |-> "quad", layer |-> layer, p |-> p, dir |-> d, len |-> length,
     a0 |-> a0, b0 |-> b0, a1 |-> a1, b1 |-> b1, r |-> 0]

Arc(layer, center, radius, start_angle, sweep, width) ==
    [kind |-> "arc", layer |-> layer, p |-> center, dir |-> start_angle,
     len |-> sweep, a0 |-> -Half(width), b0 |-> Half(width),
     a1 |-> -Half(width), b1 |-> Half(width), r |-> radius]

(***************************************************************************)
(* StateTracker and TwoLayerManager                                        *)
(***************************************************************************)
StateTracker(position, direction) ==
    [type |-> "StateTracker", last |-> position, last_direction |-> direction]

\* device_pinw, device_gapw and device_radius are the attributes that
\* create_structure and CPWLinearTaper store on the manager's device
TwoLayerManager(position, direction, two_layer) ==
    [type |-> "TwoLayerManager",
     pin_state |-> StateTracker(position, direction),
     gap_state |-> StateTracker(position, direction),
     two_layer |-> two_layer,
     device_pinw |-> None, device_gapw |-> None, device_radius |-> None]

\* TwoLayerManager.add_cpw_straight: the manager afterwards and the
\* polygons added to its device
add_cpw_straight_solid(m, length, pinw, gapw, layer_pin, layer_gap) ==
    LET position == m.pin_state.last
        direction == m.pin_state.last_direction
        end_pos == VAdd(position, Along(length, direction))
        gap_width == pinw + 2 * gapw
    IN  [m |-> [m EXCEPT !.pin_state.last = end_pos,
                         !.gap_state.last = end_pos],
         polys |-> <<Quad(layer_pin, position, direction, length,
                          -Half(gap_width), Half(gap_width),
                          -Half(gap_width), Half(gap_width))>>]

add_cpw_straight(m, length, pinw, gapw, layer_pin, layer_gap) ==
    LET position == m.pin_state.last
        direction == m.pin_state.last_direction
        end_pos == VAdd(position, Along(length, direction))
        gap_width == pinw + 2 * gapw
        total_width == 2 * gapw
        center_offset == Half(pinw) + Half(gapw)
        Rect(layer, lo, hi) ==
            Quad(layer, position, direction, length, lo, hi, lo, hi)
        polys ==
            IF m.two_layer
            THEN (IF pinw > 0
                  THEN <<Rect(layer_pin, -Half(pinw), Half(pinw))>>
                  ELSE <<>>)
                 \o <<Rect(layer_gap, -Half(gap_width), Half(gap_width))>>
            ELSE IF gapw > 0
                 THEN IF pinw = 0
                      THEN <<Rect(layer_pin, -Half(total_width),
                                  Half(total_width))>>
                      ELSE <<Rect(layer_pin,
                                  -(center_offset + Half(gapw)),
                                  -(center_offset - Half(gapw))),
                             Rect(layer_pin,
                                  center_offset - Half(gapw),
                                  center_offset + Half(gapw))>>
                 ELSE <<>>
    IN  [m |-> [m EXCEPT !.pin_state.last = end_pos,
                         !.gap_state.last = end_pos],
         polys |-> polys]

\* TwoLayerManager.add_cpw_taper
add_cpw_taper(m, length, start_pinw, stop_pinw, start_gapw, stop_gapw, layer_pin, layer_gap) ==
    LET position == m.pin_state.last
        direction == m.pin_state.last_direction
        end_pos == VAdd(position, Along(length, direction))
        start_gap_width == start_pinw + 2 * start_gapw
        stop_gap_width == stop_pinw + 2 * stop_gapw
        start_left_offset == Half(start_pinw) + Half(start_gapw)
        stop_left_offset == Half(stop_pinw) + Half(stop_gapw)
        Trap(layer, a0, b0, a1, b1) ==
            Quad(layer, position, direction, length, a0, b0, a1, b1)
        polys ==
            IF m.two_layer
            THEN (IF start_pinw > 0 \/ stop_pinw > 0
                  THEN <<Trap(layer_pin, -Half(start_pinw), Half(start_pinw),
                              -Half(stop_pinw), Half(stop_pinw))>>
                  ELSE <<>>)
                 \o <<Trap(layer_gap,
                           -Half(start_gap_width), Half(start_gap_width),
                           -Half(stop_gap_width), Half(stop_gap_width))>>
            ELSE IF start_gapw > 0 \/ stop_gapw > 0
                 THEN IF start_pinw = 0 /\ stop_pinw = 0
                      THEN <<Trap(layer_pin,
                                  -Half(2 * start_gapw), Half(2 * start_gapw),
                                  -Half(2 * stop_gapw), Half(2 * stop_gapw))>>
                      ELSE <<Trap(layer_pin,
                                  -(start_left_offset + Half(start_gapw)),
                                  -(start_left_offset - Half(start_gapw)),
                                  -(stop_left_offset + Half(stop_gapw)),
                                  -(stop_left_offset - Half(stop_gapw))),
                             Trap(layer_pin,
                                  start_left_offset - Half(start_gapw),
                                  start_left_offset + Half(start_gapw),
                                  stop_left_offset - Half(stop_gapw),
                                  stop_left_offset + Half(stop_gapw))>>
                 ELSE IF start_pinw > 0 \/ stop_pinw > 0
                      THEN <<Trap(layer_pin,
                                  -Half(start_pinw), Half(start_pinw),
                                  -Half(stop_pinw), Half(stop_pinw))>>
                      ELSE <<>>
    IN  [m |-> [m EXCEPT !.pin_state.last = end_pos,
                         !.gap_state.last = end_pos],
         polys |-> polys]

\* rotate (dx, dy) by angle degrees: (dx cos - dy sin, dx sin + dy cos)
RotateOpposite(v, angle) ==
    <<(v[1] * Cos(angle) + v[2] * Sin(angle)) \div 10000,
      (v[2] * Cos(angle) - v[1] * Sin(angle)) \div 10000>>

Rotate(v, angle) ==
    <<(v[1] * Cos(angle) - v[2] * Sin(angle)) \div 10000,
      (v[1] * Sin(angle) + v[2] * Cos(angle)) \div 10000>>

\* TwoLayerManager.add_cpw_bend (the arc sampling of _generate_arc_points
\* and _extrude_path is kept as the arc's parameters)
add_cpw_bend_no_zero_return(m, angle, radius, pinw, gapw, layer_pin, layer_gap) ==
    LET position == m.pin_state.last
        direction == m.pin_state.last_direction
        asign == IF angle > 0 THEN 1 ELSE -1
        center_angle == direction + asign * 90
        center == VAdd(position, Along(radius, center_angle))
        start_angle == direction - asign * 90
        gap_width == pinw + 2 * gapw
        total_width == 2 * gapw
        inner_radius == radius - (Half(pinw) + Half(gapw))
        outer_radius == radius + (Half(pinw) + Half(gapw))
        polys ==
            IF m.two_layer
            THEN (IF pinw > 0
                  THEN <<Arc(layer_pin, center, radius, start_angle, angle,
                             pinw)>>
                  ELSE <<>>)
                 \o <<Arc(layer_gap, center, radius, start_angle, angle,
                          gap_width)>>
            ELSE IF gapw > 0
                 THEN IF pinw = 0
                      THEN <<Arc(layer_pin, center, radius, start_angle,
                                 angle, total_width)>>
                      ELSE <<Arc(layer_pin, center, inner_radius,
                                 start_angle, angle, gapw),
                             Arc(layer_pin, center, outer_radius,
                                 start_angle, angle, gapw)>>
                 ELSE <<>>
        new_direction == direction + angle
        new_pos == VAdd(center, Rotate(VSub(position, center), angle))
    IN  [m |-> [m EXCEPT !.pin_state.last = new_pos,
                         !.pin_state.last_direction = new_direction,
                         !.gap_state.last = new_pos,
                         !.gap_state.last_direction = new_direction],
         polys |-> polys]

add_cpw_bend(m, angle, radius, pinw, gapw, layer_pin, layer_gap) ==
    IF angle = 0
    THEN [m |-> m, polys |-> <<>>]
    ELSE
    LET position == m.pin_state.last
        direction == m.pin_state.last_direction
        asign == IF angle > 0 THEN 1 ELSE -1
        center_angle == direction + asign * 90
        center == VAdd(position, Along(radius, center_angle))
        start_angle == direction - asign * 90
        gap_width == pinw + 2 * gapw
        total_width == 2 * gapw
        inner_radius == radius - (Half(pinw) + Half(gapw))
        outer_radius == radius + (Half(pinw) + Half(gapw))
        polys ==
            IF m.two_layer
            THEN (IF pinw > 0
                  THEN <<Arc(layer_pin, center, radius, start_angle, angle,
                             pinw)>>
                  ELSE <<>>)
                 \o <<Arc(layer_gap, center, radius, start_angle, angle,
                          gap_width)>>
            ELSE IF gapw > 0
                 THEN IF pinw = 0
                      THEN <<Arc(layer_pin, center, radius, start_angle,
                                 angle, total_width)>>
                      ELSE <<Arc(layer_pin, center, inner_radius,
                                 start_angle, angle, gapw),
                             Arc(layer_pin, center, outer_radius,
                                 start_angle, angle, gapw)>>
                 ELSE <<>>
        new_direction == direction + angle
        new_pos == VAdd(center, Rotate(VSub(position, center), angle))
    IN  [m |-> [m EXCEPT !.pin_state.last = new_pos,
                         !.pin_state.last_direction = new_direction,
                         !.gap_state.last = new_pos,
                         !.gap_state.last_direction = new_direction],
         polys |-> polys]

(***************************************************************************)
(* Structure: the facade object.  two_layer is chip.two_layer; target is   *)
(* _target_gds_layer (None on an ordinary structure); pin_layer and        *)
(* gap_layer are the sub-structures of a structure on a two-layer chip.    *)
(***************************************************************************)
default_pinw == 1500        \* ChipDefaults.pinw
default_gapw == 1000        \* ChipDefaults.gapw
default_radius == 50000     \* ChipDefaults.radius
fallback_pinw == 10000      \* getattr(structure, 'pinw', 10.0)
fallback_gapw == 5000       \* getattr(structure, 'gapw', 5.0)
fallback_radius == 50000    \* getattr(structure, 'radius', 50.0)

StructureBase(two_layer, start, direction, target) ==
    [type |-> "Structure",
     _last |-> start, _last_direction |-> direction,
     pinw |-> default_pinw, gapw |-> default_gapw,
     radius |-> default_radius,
     two_layer |-> two_layer,
     _manager |-> TwoLayerManager(start, direction, two_layer),
     target |-> target,
     has_layers |-> FALSE, pin_layer |-> <<>>, gap_layer |-> <<>>]

\* Structure._create_layer_structure: a structure on a SingleLayerChip
\* (two_layer = False) whose target layer is read from the globals now
_create_layer_structure(start, direction, layer_name, LP, LG) ==
    StructureBase(FALSE, start, direction,
                  IF layer_name = "pin" THEN LP ELSE LG)

\* Structure.__init__ for layer = '0'
Structure(two_layer, start, direction, LP, LG) ==
    LET s == StructureBase(two_layer, start, direction, None)
    IN  IF two_layer
        THEN [s EXCEPT
                !.has_layers = TRUE,
                !.pin_layer =
                  _create_layer_structure(start, direction, "pin", LP, LG),
                !.gap_layer =
                  _create_layer_structure(start, direction, "gap", LP, LG)]
        ELSE s

\* Structure.last setter
SetLastPinStateOnly(s, value) ==
    LET s1 == [s EXCEPT !._last = value,
                        !._manager.pin_state.last = value]
    IN  IF s.two_layer /\ s.has_layers
        THEN [s1 EXCEPT !.pin_layer._last = value,
                        !.gap_layer._last = value]
        ELSE s1

SetLast(s, value) ==
    LET s1 == [s EXCEPT !._last = value,
                        !._manager.pin_state.last = value,
                        !._manager.gap_state.last = value]
    IN  IF s.two_layer /\ s.has_layers
        THEN [s1 EXCEPT !.pin_layer._last = value,
                        !.gap_layer._last = value]
        ELSE s1

\* Structure.last_direction setter
SetLastDirection(s, value) ==
    LET s1 == [s EXCEPT !._last_direction = value,
                        !._manager.pin_state.last_direction = value,
                        !._manager.gap_state.last_direction = value]
    IN  IF s.two_layer /\ s.has_layers
        THEN [s1 EXCEPT !.pin_layer._last_direction = value,
                        !.gap_layer._last_direction = value]
        ELSE s1

\* Structure.move
StructureMove(s, distance, direction) ==
    LET d == IF direction = None THEN s._last_direction ELSE direction
    IN  SetLast(s, VAdd(s._last, Along(distance, d)))

\* StateTracker.move
TrackerMove(t, distance, direction) ==
    LET d == IF direction = None THEN t.last_direction ELSE direction
    IN  [t EXCEPT !.last = VAdd(t.last, Along(distance, d))]

(***************************************************************************)
(* The facade functions.  t is the drawing target (its type field is the   *)
(* Python class), LP and LG are the module globals at the time of the      *)
(* call.  The result is the target afterwards, the polygons added to its   *)
(* device, and the exception raised ("none" when the call returns).        *)
(***************************************************************************)
Ok(t, polys) == [t |-> t, polys |-> polys, err |-> "none"]
TypeError(t) == [t |-> t, polys |-> <<>>, err |-> "TypeError"]

\* getattr(structure, 'pinw', 10.0) and getattr(structure, 'gapw', 5.0)
GetPinw(t) == IF t.type = "Structure" THEN t.pinw ELSE fallback_pinw
GetGapw(t) == IF t.type = "Structure" THEN t.gapw ELSE fallback_gapw

\* the structure's state update after a draw through its manager
SyncFromManager(s, m) ==
    LET s1 == [s EXCEPT !._manager = m]
        s2 == SetLast(s1, s1._manager.pin_state.last)
    IN  SetLastDirection(s2, s2._manager.pin_state.last_direction)

\* the layers CPWStraight and CPWLinearTaper hand to the manager for a
\* Structure: the target layer of a layer-specific structure, otherwise the
\* module globals as they are at the time of the call
StructureLayersBoundAtDef(t, LP, LG) ==
    IF t.target # None
    THEN <<t.target, t.target>>
    ELSE <<DEFAULT_LAYER_PIN, DEFAULT_LAYER_GAP>>

StructureLayers(t, LP, LG) ==
    IF t.target # None THEN <<t.target, t.target>> ELSE <<LP, LG>>

CPWStraight(t, length, pinw_arg, gapw_arg, LP, LG) ==
    LET pinw == IF pinw_arg = None THEN GetPinw(t) ELSE pinw_arg
        gapw == IF gapw_arg = None THEN GetGapw(t) ELSE gapw_arg
    IN  CASE t.type = "Structure" ->
               LET l == StructureLayers(t, LP, LG)
                   r == add_cpw_straight(t._manager, length, pinw, gapw,
                                         l[1], l[2])
               IN  Ok(SyncFromManager(t, r.m), r.polys)
          [] t.type = "TwoLayerManager" ->
               LET r == add_cpw_straight(t, length, pinw, gapw,
                                         DEFAULT_LAYER_PIN, DEFAULT_LAYER_GAP)
               IN  Ok(r.m, r.polys)
          [] t.type = "StateTracker" ->
               Ok(TrackerMove(t, length, None), <<>>)
          [] OTHER -> TypeError(t)

CPWLinearTaper(t, length, start_pinw, stop_pinw, start_gapw, stop_gapw, LP, LG) ==
    CASE t.type = "Structure" ->
           LET l == StructureLayers(t, LP, LG)
               r == add_cpw_taper(t._manager, length, start_pinw,
                                  stop_pinw, start_gapw, stop_gapw,
                                  l[1], l[2])
               s == SyncFromManager(t, r.m)
           IN  Ok([s EXCEPT !.pinw = stop_pinw, !.gapw = stop_gapw], r.polys)
      [] t.type = "TwoLayerManager" ->
           LET r == add_cpw_taper(t, length, start_pinw, stop_pinw,
                                  start_gapw, stop_gapw,
                                  DEFAULT_LAYER_PIN, DEFAULT_LAYER_GAP)
           IN  Ok([r.m EXCEPT !.device_pinw = stop_pinw,
                              !.device_gapw = stop_gapw], r.polys)
      [] t.type = "StateTracker" ->
           Ok(TrackerMove(t, length, None), <<>>)
      [] OTHER -> TypeError(t)

CPWBend(t, angle, pinw_arg, gapw_arg, radius_arg, LP, LG) ==
    IF angle = 0
    THEN Ok(t, <<>>)
    ELSE
    LET pinw == IF pinw_arg = None THEN GetPinw(t) ELSE pinw_arg
        gapw == IF gapw_arg = None THEN GetGapw(t) ELSE gapw_arg
        radius == IF radius_arg # None THEN radius_arg
                  ELSE IF t.type = "Structure" THEN t.radius
                  ELSE fallback_radius
    IN  CASE t.type = "Structure" ->
               LET r == IF t.target # None
                        THEN add_cpw_bend(t._manager, angle, radius, pinw,
                                          gapw, t.target, t.target)
                        ELSE add_cpw_bend(t._manager, angle, radius, pinw,
                                          gapw, DEFAULT_LAYER_PIN,
                                          DEFAULT_LAYER_GAP)
               IN  Ok(SyncFromManager(t, r.m), r.polys)
          [] t.type = "TwoLayerManager" ->
               LET r == add_cpw_bend(t, angle, radius, pinw, gapw,
                                     DEFAULT_LAYER_PIN, DEFAULT_LAYER_GAP)
               IN  Ok(r.m, r.polys)
          [] t.type = "StateTracker" ->
               LET asign == IF angle > 0 THEN 1 ELSE -1
                   center_angle == t.last_direction + asign * 90
                   center == VAdd(t.last, Along(radius, center_angle))
                   new_pos ==
                       VAdd(center, Rotate(VSub(t.last, center), angle))
               IN  Ok([t EXCEPT !.last = new_pos,
                                !.last_direction = t.last_direction + angle],
                      <<>>)
          [] OTHER -> TypeError(t)

(***************************************************************************)
(* Device.center and Device.move on a device kept as its polygon list      *)
(***************************************************************************)
Perp(a, d) == <<(-a * Sin(d)) \div 10000, (a * Cos(d)) \div 10000>>

Corners(q) ==
    LET end == VAdd(q.p, Along(q.len, q.dir))
    IN  {VAdd(q.p, Perp(q.a0, q.dir)), VAdd(q.p, Perp(q.b0, q.dir)),
         VAdd(end, Perp(q.a1, q.dir)), VAdd(end, Perp(q.b1, q.dir))}

SetMin(S) == CHOOSE x \in S : \A y \in S : x <= y
SetMax(S) == CHOOSE x \in S : \A y \in S : x >= y

\* Device.bbox: ((xmin, ymin), (xmax, ymax)); ((0, 0), (0, 0)) when empty
BBox(dev) ==
    LET pts == UNION {Corners(dev[i]) : i \in 1..Len(dev)}
        xs == {pt[1] : pt \in pts}
        ys == {pt[2] : pt \in pts}
    IN  IF pts = {}
        THEN <<<<0, 0>>, <<0, 0>>>>
        ELSE <<<<SetMin(xs), SetMin(ys)>>, <<SetMax(xs), SetMax(ys)>>>>

\* Device.center
Center(dev) ==
    LET b == BBox(dev)
    IN  <<Half(b[1][1] + b[2][1]), Half(b[1][2] + b[2][2])>>

\* Device.move(origin, destination)
MoveBackwards(dev, origin, destination) ==
    [i \in 1..Len(dev) |->
        [dev[i] EXCEPT !.p = VAdd(@, VSub(origin, destination))]]

Move(dev, origin, destination) ==
    [i \in 1..Len(dev) |->
        [dev[i] EXCEPT !.p = VAdd(@, VSub(destination, origin))]]

(***************************************************************************)
(* The body of a junction-level function is the list of its statements,    *)
(* run in order on the interpreter state:                                  *)
(*   LP, LG  the module globals LAYER_PIN and LAYER_GAP                    *)
(*   pin, gap the polygons of pin_chip.device and gap_chip.device          *)
(*   s, chip the Structure being drawn with and the chip it draws on       *)
(*   saved   the orig_layer_pin locals of draw_rectangle_cpw frames        *)
(* A statement that calls into the drawing code can raise; an exception    *)
(* at statement k leaves the effects of statements 1..k-1.                 *)
(***************************************************************************)
Step(op, st) ==
    CASE op[1] = "LAYER_PIN" -> [st EXCEPT !.LP = op[2]]
      [] op[1] = "LAYER_GAP" -> [st EXCEPT !.LG = op[2]]
      [] op[1] = "save_pin" -> [st EXCEPT !.saved = <<st.LP>> \o @]
      [] op[1] = "pin_from_gap" -> [st EXCEPT !.LP = st.LG]
      [] op[1] = "restore_pin" ->
           [st EXCEPT !.LP = Head(st.saved), !.saved = Tail(@)]
      [] op[1] = "Structure" ->
           [st EXCEPT !.chip = op[2],
                      !.s = Structure(FALSE, op[3], op[4], st.LP, st.LG)]
      [] op[1] = "last_x" ->
           [st EXCEPT !.s = SetLast(st.s, <<st.s._last[1] + op[2],
                                            st.s._last[2]>>)]
      [] op[1] = "last_direction" ->
           [st EXCEPT !.s = SetLastDirection(st.s, op[2])]
      [] op[1] = "CPWStraight" ->
           LET r == CPWStraight(st.s, op[4], op[2], op[3], st.LP, st.LG)
           IN  IF st.chip = "pin"
               THEN [st EXCEPT !.s = r.t, !.pin = @ \o r.polys]
               ELSE [st EXCEPT !.s = r.t, !.gap = @ \o r.polys]
      [] op[1] = "CPWLinearTaper" ->
           LET r == CPWLinearTaper(st.s, op[2], op[3], op[4], op[5], op[6],
                                   st.LP, st.LG)
           IN  IF st.chip = "pin"
               THEN [st EXCEPT !.s = r.t, !.pin = @ \o r.polys]
               ELSE [st EXCEPT !.s = r.t, !.gap = @ \o r.polys]
      [] op[1] = "center" ->
           [st EXCEPT !.pin = Move(st.pin, Center(st.pin), <<0, 0>>),
                      !.gap = Move(st.gap, Center(st.gap), <<0, 0>>)]

CanRaise(op) ==
    op[1] \in {"Structure", "CPWStraight", "CPWLinearTaper", "center"}

RECURSIVE Exec(_, _, _)
Exec(ops, n, st) ==
    IF n = 0
    THEN st
    ELSE CHOOSE next \in {Step(ops[n], prev) :
                              prev \in {Exec(ops, n - 1, st)}} : TRUE

\* failAt = 0: every statement runs; failAt = k > 0: statement k raises
Entry(LP, LG, pin, gap) ==
    [LP |-> LP, LG |-> LG, pin |-> pin, gap |-> gap,
     s |-> StructureBase(FALSE, <<0, 0>>, 0, None), chip |-> "pin",
     saved |-> <<>>]

RunBody(ops, st, failAt) ==
    IF failAt = 0 THEN Exec(ops, Len(ops), st) ELSE Exec(ops, failAt - 1, st)

FailPoints(ops) == {0} \cup {k \in 1..Len(ops) : CanRaise(ops[k])}

\* what a call hands back: the globals afterwards, whether it raised, and
\* the returned (pin_dev, gap_dev)
Outcome(st, raised) ==
    [LP |-> st.LP, LG |-> st.LG, raised |-> raised,
     body_LP |-> st.LP, body_LG |-> st.LG,
     pin_dev |-> IF raised THEN <<>> ELSE st.pin,
     gap_dev |-> IF raised THEN <<>> ELSE st.gap]

\* the outcome together with the layer context the body left behind before
\* the caller's cleanup ran
WithBody(out, st) == [out EXCEPT !.body_LP = st.LP, !.body_LG = st.LG]

\* the finally block of a junction generator
\*     phidl_bridge.LAYER_PIN = orig_pin; phidl_bridge.LAYER_GAP = orig_gap
FinallyNoRestoreOnRaise(st, raised, orig_pin, orig_gap) ==
    IF raised THEN st ELSE [st EXCEPT !.LP = orig_pin, !.LG = orig_gap]

Finally(st, raised, orig_pin, orig_gap) ==
    [st EXCEPT !.LP = orig_pin, !.LG = orig_gap]

(***************************************************************************)
(* Junction generators                                                     *)
(***************************************************************************)
\* try-block of draw_dolan_junction; draw_dolan_junction_variable_uc and
\* draw_asymmetric_junction run the same statements with their own widths
DolanBody(left_width, right_width, gap, uc, layer_pin, layer_gap) ==
    <<  <<"LAYER_PIN", layer_pin>>,
        <<"LAYER_GAP", layer_gap>>,
        <<"Structure", "pin", <<0, 0>>, 0>>,
        <<"CPWStraight", 0, Half(bar_w), 1000>>,
        <<"CPWLinearTaper", taper_l, bar_w, left_width, 0, 0>>,
        <<"CPWStraight", 0, Half(left_width), thin_l>>,
        <<"last_x", gap>>,
        <<"CPWStraight", 0, Half(right_width), thin_l>>,
        <<"CPWLinearTaper", taper_l, right_width, bar_w, 0, 0>>,
        <<"CPWStraight", 0, Half(bar_w), 1000>>,
        <<"LAYER_PIN", layer_gap>>,
        <<"Structure", "gap", <<0, 0>>, 0>>,
        <<"last_direction", 0>>,
        <<"CPWStraight", 0, Half(bar_w + uc), uc>>,
        <<"last_direction", 0>>,
        <<"CPWStraight", bar_w, Half(uc), 1000>>,
        <<"CPWLinearTaper", taper_l, bar_w, left_width, Half(uc), Half(uc)>>,
        <<"CPWStraight", left_width, Half(uc), thin_l>>,
        <<"CPWStraight", 0, Half(Max(left_width, right_width) + uc), gap>>,
        <<"CPWStraight", right_width, Half(uc), thin_l>>,
        <<"CPWLinearTaper", taper_l, right_width, bar_w, Half(uc), Half(uc)>>,
        <<"CPWStraight", bar_w, Half(uc), 1000>>,
        <<"last_direction", 0>>,
        <<"CPWStraight", 0, Half(bar_w + uc), uc>>,
        <<"center">>  >>

RunGenerator(body, LP, LG, failAt) ==
    LET orig_pin == LP
        orig_gap == LG
    IN  CHOOSE out \in
            {WithBody(Outcome(fin, failAt # 0), st) :
                <<st, fin>> \in
                    {<<b, Finally(b, failAt # 0, orig_pin, orig_gap)>> :
                        b \in {RunBody(body, Entry(LP, LG, <<>>, <<>>),
                                       failAt)}}} : TRUE

draw_dolan_junction_body_no_gap(width, gap, layer_pin, layer_gap, right_width) ==
    DolanBody(width, right_width, 0, uc_default, layer_pin, layer_gap)

draw_dolan_junction_body(width, gap, layer_pin, layer_gap, right_width) ==
    DolanBody(width, right_width, gap, uc_default, layer_pin, layer_gap)

draw_dolan_junction(width, gap, layer_pin, layer_gap, right_width, LP, LG, failAt) ==
    RunGenerator(draw_dolan_junction_body(width, gap, layer_pin, layer_gap,
                                          right_width), LP, LG, failAt)

draw_dolan_junction_variable_uc_body(width, gap, layer_pin, layer_gap, uc, right_width) ==
    DolanBody(width, Max(width, right_width), gap, uc, layer_pin, layer_gap)

draw_dolan_junction_variable_uc(width, gap, layer_pin, layer_gap, uc, right_width, LP, LG, failAt) ==
    RunGenerator(draw_dolan_junction_variable_uc_body(
                     width, gap, layer_pin, layer_gap, uc, right_width),
                 LP, LG, failAt)

draw_asymmetric_junction_body(width, gap, layer_pin, layer_gap, left_width, right_width) ==
    DolanBody(left_width, right_width, gap, uc_default, layer_pin, layer_gap)

draw_asymmetric_junction(width, gap, layer_pin, layer_gap, left_width, right_width, LP, LG, failAt) ==
    RunGenerator(draw_asymmetric_junction_body(
                     width, gap, layer_pin, layer_gap, left_width,
                     right_width), LP, LG, failAt)

RECURSIVE Repeat(_, _)
Repeat(ops, n) == IF n <= 0 THEN <<>> ELSE ops \o Repeat(ops, n - 1)

draw_dolan_junction_array_body(width, gap, layer_pin, layer_gap, right_width_arg, num_juncs) ==
    LET right_width == Max(width, right_width_arg)
        uc == uc_default
        max_width == Max(width, right_width)
    IN  <<  <<"LAYER_PIN", layer_pin>>,
            <<"LAYER_GAP", layer_gap>>,
            <<"Structure", "pin", <<0, 0>>, 0>>,
            <<"CPWStraight", 0, Half(bar_w), 1000>>,
            <<"CPWLinearTaper", taper_l, bar_w, width, 0, 0>>,
            <<"CPWStraight", 0, Half(width), thin_l>>,
            <<"last_x", gap>>  >>
        \o Repeat(<<  <<"CPWStraight", 0, Half(width), gap>>,
                      <<"last_x", gap>>  >>, num_juncs - 1)
        \o <<  <<"CPWStraight", 0, Half(right_width), thin_l>>,
               <<"CPWLinearTaper", taper_l, right_width, bar_w, 0, 0>>,
               <<"CPWStraight", 0, Half(bar_w), 1000>>,
               <<"LAYER_PIN", layer_gap>>,
               <<"Structure", "gap", <<0, 0>>, 0>>,
               <<"CPWStraight", 0, Half(bar_w + uc), uc>>,
               <<"CPWStraight", bar_w, Half(uc), 1000>>,
               <<"CPWLinearTaper", taper_l, bar_w, width, Half(uc), Half(uc)>>,
               <<"CPWStraight", width, Half(uc), thin_l>>  >>
        \o Repeat(<<  <<"CPWStraight", 0, Half(width + uc), gap>>,
                      <<"CPWStraight", width, Half(uc), gap>>  >>,
                  num_juncs - 1)
        \o <<  <<"CPWStraight", 0, Half(max_width + uc), gap>>,
               <<"CPWStraight", right_width, Half(uc), thin_l>>,
               <<"CPWLinearTaper", taper_l, right_width, bar_w,
                 Half(uc), Half(uc)>>,
               <<"CPWStraight", bar_w, Half(uc), 1000>>,
               <<"CPWStraight", 0, Half(bar_w + uc), uc>>,
               <<"center">>  >>

draw_dolan_junction_array(width, gap, layer_pin, layer_gap, right_width, num_juncs, LP, LG, failAt) ==
    RunGenerator(draw_dolan_junction_array_body(
                     width, gap, layer_pin, layer_gap, right_width,
                     num_juncs), LP, LG, failAt)

\* draw_rectangle_cpw: the statements of one call
paddle_width_default == 1000
paddle_length_default == 1500
rect_uc_default == 300

draw_rectangle_cpw_body(center_pos, width, length, direction, paddle_width, paddle_length, uc) ==
    LET half == Along(Half(length), direction)
        paddle_half == Along(Half(paddle_length), direction)
        start_pos == VSub(center_pos, half)
        left_center == VSub(center_pos, half)
        left_start == VSub(left_center, paddle_half)
        side_start == VAdd(VSub(center_pos, half), paddle_half)
        side_length == length - paddle_length
        right_center == VAdd(center_pos, half)
        right_start == VSub(right_center, paddle_half)
    IN  <<  <<"save_pin">>,
            <<"Structure", "pin", start_pos, direction>>,
            <<"CPWStraight", 0, Half(width), length>>,
            <<"pin_from_gap">>,
            <<"Structure", "gap", left_start, direction>>,
            <<"CPWStraight", 0, Half(paddle_width), paddle_length>>,
            <<"Structure", "gap", side_start, direction>>,
            <<"CPWStraight", width, Half(uc), side_length>>,
            <<"Structure", "gap", right_start, direction>>,
            <<"CPWStraight", 0, Half(paddle_width), paddle_length>>,
            <<"restore_pin">>  >>

\* a call of draw_rectangle_cpw on its own: no try/finally around the body
draw_rectangle_cpw(pin_chip, gap_chip, center_pos, width, length, direction, paddle_width, paddle_length, uc, LP, LG, failAt) ==
    CHOOSE out \in
        {[LP |-> st.LP, LG |-> st.LG, raised |-> failAt # 0,
          body_LP |-> st.LP, body_LG |-> st.LG,
          pin_dev |-> st.pin, gap_dev |-> st.gap] :
            st \in {RunBody(draw_rectangle_cpw_body(
                                center_pos, width, length, direction,
                                paddle_width, paddle_length, uc),
                            Entry(LP, LG, pin_chip, gap_chip), failAt)}} : TRUE

bandage_w == 200
bandage_l == 20000
angle_l == 10000
manhattan_uc == 500
hor_offset == 1500
ver_offset == 1000

draw_manhattan_junction_body(width, layer_pin, layer_gap) ==
    LET angle_w == width
        pos1 == <<-hor_offset - Half(bandage_l), 0>>
        pos2 == <<hor_offset + Half(bandage_l), -ver_offset>>
        pos3 == <<-2 * hor_offset, (2 * hor_offset) \div 3>>
        pos4 == <<2 * hor_offset, hor_offset - ver_offset>>
        Lead(pos, w, l, d) ==
            draw_rectangle_cpw_body(pos, w, l, d, paddle_width_default,
                                    paddle_length_default, rect_uc_default)
    IN  <<  <<"LAYER_PIN", layer_pin>>,
            <<"LAYER_GAP", layer_gap>>  >>
        \o Lead(pos1, bandage_w, bandage_l, 0)
        \o Lead(pos2, bandage_w, bandage_l, 0)
        \o Lead(pos3, angle_w, (125 * angle_l) \div 100, 45)
        \o Lead(pos4, angle_w, (125 * angle_l) \div 100, 135)
        \o <<  <<"center">>  >>

draw_manhattan_junction(width, layer_pin, layer_gap, LP, LG, failAt) ==
    RunGenerator(draw_manhattan_junction_body(width, layer_pin, layer_gap),
                 LP, LG, failAt)

\* draw_manhattan_junction_for_dose_test: gap is ignored
draw_manhattan_junction_for_dose_test(width, gap, layer_pin, layer_gap, LP, LG, failAt) ==
    draw_manhattan_junction(width, layer_pin, layer_gap, LP, LG, failAt)

(***************************************************************************)
(* Layer context: the junction-level functions called one after another    *)
(* in one process, each on the layer context the previous call left.       *)
(***************************************************************************)
MaxJuncs == 2
GlobalLayers == {1, 2}
LayerPairs == {<<20, 60>>, <<2, 1>>}
Widths == {200, 4000}
NarrowWidths == {200}
Gaps == {200}
JunctionGaps == {200, 500}
Directions == {0, 45, 90}
Generators ==
    {"draw_dolan_junction", "draw_dolan_junction_variable_uc",
     "draw_dolan_junction_array", "draw_manhattan_junction",
     "draw_asymmetric_junction"}

NoCall ==
    [fn |-> "none", args |-> <<>>, layer_pin |-> None, layer_gap |-> None,
     orig_pin |-> None, orig_gap |-> None, raised |-> FALSE,
     body_LP |-> None, body_LG |-> None, pin_dev |-> <<>>, gap_dev |-> <<>>]

\* the globals after the call, and the record of the call with its
\* geometry arguments
Called(fn, args, layer_pin, layer_gap, out) ==
    /\ LAYER_PIN' = out.LP
    /\ LAYER_GAP' = out.LG
    /\ call' = [fn |-> fn, args |-> args, layer_pin |-> layer_pin, layer_gap |-> layer_gap,
                orig_pin |-> LAYER_PIN, orig_gap |-> LAYER_GAP,
                raised |-> out.raised,
                body_LP |-> out.body_LP, body_LG |-> out.body_LG,
                pin_dev |-> out.pin_dev, gap_dev |-> out.gap_dev]
    /\ UNCHANGED <<doseVars, grid, pathVars>>

\* the parts of the state a specification does not use
NoGrid == [state |-> "none", cells |-> <<>>, dose_table |-> <<>>]
NoOp == [kind |-> "none"]
NoTarget == [type |-> "none"]
DoseIdle == dose_table = <<>> /\ dose_arrays = <<>> /\ chip = <<>> /\ files = <<>>
PathIdle == path = NoTarget /\ last_op = NoOp

InitLayers ==
    /\ LAYER_PIN \in GlobalLayers
    /\ LAYER_GAP \in GlobalLayers
    /\ call = NoCall
    /\ DoseIdle
    /\ grid = NoGrid
    /\ PathIdle

DrawDolanJunction ==
    \E w \in Widths, g \in JunctionGaps, l \in LayerPairs :
      \E failAt \in FailPoints(draw_dolan_junction_body(
                        w, g, l[1], l[2], default_right_width)) :
        \E out \in {draw_dolan_junction(w, g, l[1], l[2], default_right_width,
                                   LAYER_PIN, LAYER_GAP, failAt)} :
          Called("draw_dolan_junction",
                 [width |-> w, gap |-> g,
                  right_width |-> default_right_width], l[1], l[2], out)

DrawDolanJunctionVariableUc ==
    \E w \in NarrowWidths, g \in Gaps, l \in LayerPairs, uc \in {200, 300} :
      \E failAt \in FailPoints(draw_dolan_junction_variable_uc_body(
                        w, g, l[1], l[2], uc, default_right_width)) :
        \E out \in {draw_dolan_junction_variable_uc(
                   w, g, l[1], l[2], uc, default_right_width,
                   LAYER_PIN, LAYER_GAP, failAt)} :
          Called("draw_dolan_junction_variable_uc",
                 [width |-> w, gap |-> g, uc |-> uc,
                  right_width |-> default_right_width], l[1], l[2], out)

DrawDolanJunctionArray ==
    \E w \in Widths, g \in Gaps, l \in LayerPairs, n \in 1..MaxJuncs :
      \E failAt \in FailPoints(draw_dolan_junction_array_body(
                        w, g, l[1], l[2], default_right_width, n)) :
        \E out \in {draw_dolan_junction_array(
                   w, g, l[1], l[2], default_right_width, n,
                   LAYER_PIN, LAYER_GAP, failAt)} :
          Called("draw_dolan_junction_array",
                 [width |-> w, gap |-> g,
                  right_width |-> default_right_width, num_juncs |-> n],
                 l[1], l[2], out)

DrawManhattanJunction ==
    \E w \in NarrowWidths, l \in LayerPairs :
      \E failAt \in FailPoints(draw_manhattan_junction_body(w, l[1], l[2])) :
        \E out \in {draw_manhattan_junction(w, l[1], l[2],
                                       LAYER_PIN, LAYER_GAP, failAt)} :
          Called("draw_manhattan_junction", [width |-> w], l[1], l[2], out)

DrawAsymmetricJunction ==
    \E lw \in NarrowWidths, rw \in Widths, g \in Gaps, l \in LayerPairs :
      \E failAt \in FailPoints(draw_asymmetric_junction_body(
                        lw, g, l[1], l[2], lw, rw)) :
        \E out \in {draw_asymmetric_junction(lw, g, l[1], l[2], lw, rw,
                                        LAYER_PIN, LAYER_GAP, failAt)} :
          Called("draw_asymmetric_junction",
                 [width |-> lw, gap |-> g, left_width |-> lw,
                  right_width |-> rw], l[1], l[2], out)

\* draw_rectangle_cpw called directly on two fresh chips
DrawRectangleCpw ==
    \E w \in NarrowWidths, d \in Directions :
      \E failAt \in FailPoints(draw_rectangle_cpw_body(
                        <<0, 0>>, w, 10000, d, paddle_width_default,
                        paddle_length_default, rect_uc_default)) :
        \E out \in {draw_rectangle_cpw(<<>>, <<>>, <<0, 0>>, w, 10000, d,
                                  paddle_width_default,
                                  paddle_length_default, rect_uc_default,
                                  LAYER_PIN, LAYER_GAP, failAt)} :
          Called("draw_rectangle_cpw", [width |-> w, direction |-> d], None, None, out)

NextLayers ==
    \/ DrawDolanJunction
    \/ DrawDolanJunctionVariableUc
    \/ DrawDolanJunctionArray
    \/ DrawManhattanJunction
    \/ DrawAsymmetricJunction
    \/ DrawRectangleCpw

SpecLayers == InitLayers /\ [][NextLayers]_vars

Layers(dev) == {dev[i].layer : i \in 1..Len(dev)}

\* C1: a junction generator leaves LAYER_PIN and LAYER_GAP as it found
\* them, whether it returned or a draw step inside it raised.
C1_GeneratorRestoresLayerContext ==
    call.fn \in Generators =>
        /\ LAYER_PIN = call.orig_pin
        /\ LAYER_GAP = call.orig_gap

\* a generator raised while LAYER_PIN was redirected to the undercut layer,
\* which differs from the value found at entry
C1_Witness ==
    /\ call.fn \in Generators
    /\ call.raised
    /\ call.body_LP = call.layer_gap
    /\ call.body_LP # call.orig_pin
    /\ call.body_LG # call.orig_gap

\* C2: draw_rectangle_cpw leaves LAYER_PIN as it found it on every exit
\* path, also when a draw call after the redirect raises.
C2_RectangleRestoresLayerPin ==
    call.fn = "draw_rectangle_cpw" => LAYER_PIN = call.orig_pin

\* C3: the shapes a generator returns for (layer_pin, layer_gap) have every
\* conductor polygon on layer_pin and every undercut polygon on layer_gap,
\* whatever the layer context was before the call.
C3_ShapesOnRequestedLayers ==
    (call.fn \in Generators /\ ~call.raised) =>
        /\ Layers(call.pin_dev) = {call.layer_pin}
        /\ Layers(call.gap_dev) = {call.layer_gap}

\* a generator returned shapes for a layer pair that differs from the
\* context found at entry, in which LAYER_PIN and LAYER_GAP named the same
\* layer (as a failed draw_rectangle_cpw leaves them)
C3_Witness ==
    /\ call.fn = "draw_manhattan_junction"
    /\ ~call.raised
    /\ Len(call.pin_dev) > 0
    /\ Len(call.gap_dev) > 0
    /\ call.orig_pin = call.orig_gap
    /\ call.orig_pin # call.layer_pin
    /\ call.orig_gap # call.layer_gap

(***************************************************************************)
(* Dose grids.  Doses are integers in hundredths of uC/cm^2, so that a     *)
(* dose printed with one decimal (save) or none (cell labels) is a real    *)
(* rounding.  A grid device is kept as the list of its cells, in the order *)
(* the loops place them.                                                   *)
(***************************************************************************)
\* format(x, '.Nf') of a value kept in units of 1/unit of the last printed
\* digit: round to nearest, ties to even (the ties the inputs produce, .5,
\* .25 and .75, are exact in binary floating point)
RoundDiv(x, unit) ==
    LET q == x \div unit
        r == x % unit
    IN  IF 2 * r < unit THEN q
        ELSE IF 2 * r > unit THEN q + 1
        ELSE IF q % 2 = 0 THEN q ELSE q + 1

\* np.linspace(start, stop, num)
linspace(start, stop, num) ==
    [k \in 1..num |->
        IF num = 1 THEN start
        ELSE start + ((k - 1) * (stop - start)) \div (num - 1)]

\* junction_func(width, gap, layer_pin, layer_gap), no draw call raising
CallJunction(junction_func, width, gap, layer_pin, layer_gap, LP, LG) ==
    CASE junction_func = "draw_dolan_junction" ->
           draw_dolan_junction(width, gap, layer_pin, layer_gap,
                               default_right_width, LP, LG, 0)
      [] junction_func = "draw_manhattan_junction_for_dose_test" ->
           draw_manhattan_junction_for_dose_test(width, gap, layer_pin,
                                                 layer_gap, LP, LG, 0)

\* grid << pin_dev, grid << gap_dev, each reference moved to (xpos, ypos),
\* and, where the grid draws them, the text label and the enclosing box
PlaceCell(out, xpos, ypos, label_text, labelled) ==
    [pin_origin |-> <<xpos, ypos>>,
     gap_origin |-> <<xpos, ypos>>,
     pin |-> Move(out.pin_dev, <<0, 0>>, <<xpos, ypos>>),
     gap |-> Move(out.gap_dev, <<0, 0>>, <<xpos, ypos>>),
     label |-> IF labelled
               THEN [text |-> label_text, layer |-> 2,
                     at |-> <<xpos, ypos + 25000>>]
               ELSE [text |-> <<>>, layer |-> None, at |-> <<0, 0>>],
     box |-> IF labelled
             THEN [size |-> <<80000, 80000>>, layer |-> 1,
                   center |-> <<xpos, ypos + 10000>>]
             ELSE [size |-> <<0, 0>>, layer |-> None, center |-> <<0, 0>>]]

\* if layer not in [d[0] for d in dose_table]: dose_table.append(...)
StoreDoseAlways(table, layer, dose, dtype) ==
    Append(table, <<layer, dose, dtype>>)

StoreDose(table, layer, dose, dtype) ==
    IF layer \notin {table[n][1] : n \in 1..Len(table)}
    THEN Append(table, <<layer, dose, dtype>>)
    ELSE table

\* layer_fc = base_layer_fc + i; layer_uc = base_layer_uc + j
CellLayersByColumn(base_layer_fc, base_layer_uc, i, j) ==
    <<base_layer_fc + i, base_layer_uc + i>>

CellLayers(base_layer_fc, base_layer_uc, i, j) ==
    <<base_layer_fc + i, base_layer_uc + j>>

\* the first k passes of the loop body of create_dose_test_grid; idx
\* counts the passes of "for i in range(n_cols): for j in range(n_rows)"
RECURSIVE dose_test_cells(_, _, _)
dose_test_cells(a, k, init) ==
    IF k = 0 THEN init ELSE
    LET idx == k - 1
        i == idx \div a.n_rows
        j == idx % a.n_rows
        dose_fc_values == linspace(a.dose_fullcut_range[1],
                                   a.dose_fullcut_range[2], a.n_cols)
        dose_uc_values == linspace(a.dose_undercut_range[1],
                                   a.dose_undercut_range[2], a.n_rows)
        xpos == a.start_pos[1] + i * a.spacing
        ypos == a.start_pos[2] + j * a.spacing
        layers == CellLayers(a.base_layer_fc, a.base_layer_uc, i, j)
        layer_fc == layers[1]
        layer_uc == layers[2]
        dose_fc == dose_fc_values[i + 1]
        dose_uc == dose_uc_values[j + 1]
        label_text == <<RoundDiv(dose_fc, 100), "/", RoundDiv(dose_uc, 100)>>
    IN  CHOOSE next \in UNION {
                {[cells |-> Append(acc.cells,
                                   PlaceCell(out, xpos, ypos, label_text, TRUE)),
                  dose_table |->
                      StoreDose(StoreDose(acc.dose_table, layer_fc, dose_fc,
                                          "fullcut"),
                                layer_uc, dose_uc * 4, "undercut"),
                  LP |-> out.LP, LG |-> out.LG] :
                    out \in {CallJunction(a.junction_func, a.geometry[1],
                                          a.geometry[2], layer_fc, layer_uc,
                                          acc.LP, acc.LG)}} :
                    acc \in {dose_test_cells(a, k - 1, init)}} : TRUE

\* the first k passes of the loop body of create_dose_array_grid (widths outer, gaps
\* inner); the label prints width and gap in um with two decimals
RECURSIVE dose_array_cells(_, _, _)
dose_array_cells(a, k, init) ==
    IF k = 0 THEN init ELSE
    LET idx == k - 1
        i == idx \div a.n_rows
        j == idx % a.n_rows
        widths == linspace(a.width_range[1], a.width_range[2], a.n_cols)
        gaps == linspace(a.gap_range[1], a.gap_range[2], a.n_rows)
        xpos == a.start_pos[1] + i * a.spacing
        ypos == a.start_pos[2] + j * a.spacing
        label_text == <<RoundDiv(widths[i + 1], 10), "/",
                        RoundDiv(gaps[j + 1], 10)>>
    IN  CHOOSE next \in UNION {
                {[cells |-> Append(acc.cells,
                                   PlaceCell(out, xpos, ypos, label_text, TRUE)),
                  dose_table |-> acc.dose_table,
                  LP |-> out.LP, LG |-> out.LG] :
                    out \in {CallJunction(a.junction_func, widths[i + 1],
                                          gaps[j + 1], a.layer_pin, a.layer_gap,
                                          acc.LP, acc.LG)}} :
                    acc \in {dose_array_cells(a, k - 1, init)}} : TRUE

\* the first k passes of the loop body of create_undercut_test_grid (widths outer,
\* undercuts inner)
RECURSIVE undercut_test_cells(_, _, _)
undercut_test_cells(a, k, init) ==
    IF k = 0 THEN init ELSE
    LET idx == k - 1
        i == idx \div a.n_rows
        j == idx % a.n_rows
        widths == linspace(a.width_range[1], a.width_range[2], a.n_cols)
        ucs == linspace(a.uc_range[1], a.uc_range[2], a.n_rows)
        xpos == a.start_pos[1] + i * a.spacing
        ypos == a.start_pos[2] + j * a.spacing
    IN  CHOOSE next \in UNION {
                {[cells |-> Append(acc.cells,
                                   PlaceCell(out, xpos, ypos, <<>>, FALSE)),
                  dose_table |-> acc.dose_table,
                  LP |-> out.LP, LG |-> out.LG] :
                    out \in {draw_dolan_junction_variable_uc(
                                 widths[i + 1], a.gap, a.layer_pin, a.layer_gap,
                                 ucs[j + 1], default_right_width,
                                 acc.LP, acc.LG, 0)}} :
                    acc \in {undercut_test_cells(a, k - 1, init)}} : TRUE

\* the first k passes of the loop of create_manhattan_sweep_grid
RECURSIVE manhattan_sweep_cells(_, _, _)
manhattan_sweep_cells(a, k, init) ==
    IF k = 0 THEN init ELSE
    LET idx == k - 1
        widths == linspace(a.width_range[1], a.width_range[2], a.n_junctions)
        col == idx % a.n_cols
        row == idx \div a.n_cols
        xpos == a.start_pos[1] + col * a.spacing
        ypos == a.start_pos[2] + row * a.spacing
        label_text == <<RoundDiv(widths[idx + 1], 10)>>
    IN  CHOOSE next \in UNION {
                {[cells |-> Append(acc.cells,
                                   PlaceCell(out, xpos, ypos, label_text, TRUE)),
                  dose_table |-> acc.dose_table,
                  LP |-> out.LP, LG |-> out.LG] :
                    out \in {draw_manhattan_junction(
                                 widths[idx + 1], a.layer_pin, a.layer_gap,
                                 acc.LP, acc.LG, 0)}} :
                    acc \in {manhattan_sweep_cells(a, k - 1, init)}} : TRUE

EmptyGrid(table, LP, LG) ==
    [cells |-> <<>>, dose_table |-> table, LP |-> LP, LG |-> LG]

\* create_dose_test_grid: (grid, dose_table), and the layer context after
create_dose_test_grid(a, LP, LG) ==
    dose_test_cells(a, a.n_cols * a.n_rows,
             EmptyGrid(<<<<2, 300000, "clearing">>>>, LP, LG))

create_dose_array_grid(a, LP, LG) ==
    dose_array_cells(a, a.n_cols * a.n_rows, EmptyGrid(<<>>, LP, LG))

create_undercut_test_grid(a, LP, LG) ==
    undercut_test_cells(a, a.n_cols * a.n_rows, EmptyGrid(<<>>, LP, LG))

create_manhattan_sweep_grid(a, LP, LG) ==
    manhattan_sweep_cells(a, a.n_junctions, EmptyGrid(<<>>, LP, LG))

\* add_grid_labels: the column labels, the row labels and the title.  A
\* dose_test grid prints its values with no decimals, the others with two.
add_grid_labels(grid_type, x_values, y_values, x_label, y_label, start_pos, spacing, label_layer) ==
    LET base_x == start_pos[1]
        base_y == start_pos[2]
        n_cols == Len(x_values)
        small == spacing <= 100000
        label_size == IF small THEN 8000 ELSE 25000
        title_size == IF small THEN 12000 ELSE 35000
        col_offset == IF small THEN -70000 ELSE -80000
        row_offset == IF small THEN -90000 ELSE -120000
        title_offset == IF small THEN -100000 ELSE -150000
        Text(lbl, val) == IF grid_type = "dose_test"
                          THEN <<lbl, ":", RoundDiv(val, 100)>>
                          ELSE <<RoundDiv(val, 10)>>
    IN  [columns |-> [i \in 1..Len(x_values) |->
                        [text |-> Text(x_label, x_values[i]),
                         size |-> label_size, layer |-> label_layer,
                         at |-> <<base_x + (i - 1) * spacing,
                                  base_y + col_offset>>]],
         rows |-> [j \in 1..Len(y_values) |->
                        [text |-> Text(y_label, y_values[j]),
                         size |-> label_size, layer |-> label_layer,
                         at |-> <<base_x + row_offset,
                                  base_y + (j - 1) * spacing>>]],
         title |-> [text |-> <<IF grid_type = "dose_test" THEN "Dose Test"
                               ELSE IF grid_type = "dose_array"
                               THEN "Dose Array" ELSE "Undercut Test",
                               x_label, "vs", y_label>>,
                    size |-> title_size, layer |-> label_layer,
                    at |-> <<base_x + Half((n_cols - 1) * spacing),
                             base_y + title_offset>>]]

(***************************************************************************)
(* create_dose_test_grid as a function of its arguments: the arguments are *)
(* drawn in the initial state and the one action applies the function.     *)
(***************************************************************************)
MaxRows == 2
MaxCols == 2
JunctionFuncs == {"draw_dolan_junction", "draw_manhattan_junction_for_dose_test"}
FullcutRanges == {<<40000, 80000>>, <<10025, 10075>>}
UndercutRanges == {<<10000, 20000>>, <<3550, 3650>>}
StartPositions == {<<0, 0>>, <<-100000, 250000>>}
BaseLayers == {<<200, 600>>, <<200, 201>>, <<2, 600>>}
GridArgs ==
    {[junction_func |-> f, geometry |-> <<200, 200>>,
      dose_fullcut_range |-> fc, dose_undercut_range |-> uc,
      n_rows |-> r, n_cols |-> c, spacing |-> 50000, start_pos |-> sp,
      base_layer_fc |-> b[1], base_layer_uc |-> b[2]] :
        f \in JunctionFuncs, fc \in FullcutRanges, uc \in UndercutRanges,
        r \in 1..MaxRows, c \in 1..MaxCols, sp \in StartPositions,
        b \in BaseLayers}

InitGrid ==
    /\ LAYER_PIN \in GlobalLayers
    /\ LAYER_GAP \in GlobalLayers
    /\ call = NoCall
    /\ DoseIdle
    /\ PathIdle
    /\ grid \in {[state |-> "args", args |-> a, cells |-> <<>>,
                  dose_table |-> <<>>] : a \in GridArgs}

CreateDoseTestGrid ==
    /\ grid.state = "args"
    /\ \E res \in {create_dose_test_grid(grid.args, LAYER_PIN, LAYER_GAP)} :
          /\ grid' = [grid EXCEPT !.state = "done", !.cells = res.cells,
                                  !.dose_table = res.dose_table]
          /\ LAYER_PIN' = res.LP
          /\ LAYER_GAP' = res.LG
    /\ UNCHANGED <<call, doseVars, pathVars>>

NextGrid == CreateDoseTestGrid

SpecGrid == InitGrid /\ [][NextGrid]_vars

\* what the grid's arguments ask for
GridFcValues == linspace(grid.args.dose_fullcut_range[1], grid.args.dose_fullcut_range[2], grid.args.n_cols)
GridUcValues == linspace(grid.args.dose_undercut_range[1], grid.args.dose_undercut_range[2], grid.args.n_rows)
GridFcLayers == {grid.args.base_layer_fc + c : c \in 0..(grid.args.n_cols - 1)}
GridUcLayers == {grid.args.base_layer_uc + r : r \in 0..(grid.args.n_rows - 1)}
GridExpectedTable ==
    {<<2, 300000, "clearing">>}
    \cup {<<grid.args.base_layer_fc + c, GridFcValues[c + 1], "fullcut">> :
             c \in 0..(grid.args.n_cols - 1)}
    \cup {<<grid.args.base_layer_uc + r, 4 * GridUcValues[r + 1], "undercut">> :
             r \in 0..(grid.args.n_rows - 1)}
GridCellAt(col, row) ==
    {k \in 1..Len(grid.cells) :
        /\ grid.cells[k].pin_origin =
              <<grid.args.start_pos[1] + col * grid.args.spacing,
                grid.args.start_pos[2] + row * grid.args.spacing>>
        /\ grid.cells[k].gap_origin = grid.cells[k].pin_origin}
GridTableAsStated ==
    /\ Len(grid.dose_table) = 1 + grid.args.n_cols + grid.args.n_rows
    /\ SeqToSet(grid.dose_table) = GridExpectedTable
    /\ Cardinality({e[1] : e \in SeqToSet(grid.dose_table)}) = Len(grid.dose_table)
    /\ \A col \in 0..(grid.args.n_cols - 1), row \in 0..(grid.args.n_rows - 1) :
          \A k \in GridCellAt(col, row) :
             /\ grid.cells[k].label.text =
                   <<RoundDiv(GridFcValues[col + 1], 100), "/",
                     RoundDiv(GridUcValues[row + 1], 100)>>
             /\ Layers(grid.cells[k].gap) = {grid.args.base_layer_uc + row}
GridLayersDisjoint ==
    /\ GridFcLayers \cap GridUcLayers = {}
    /\ 2 \notin GridFcLayers \cup GridUcLayers

\* C6 (as stated): for any n_rows, n_cols >= 1 and any base layers the
\* returned dose table is exactly the clearing entry (2, 3000), one fullcut
\* entry (base_layer_fc + col, dose of the column) per column and one
\* undercut entry (base_layer_uc + row, 4 x dose of the row) per row, all on
\* distinct layers, while each cell keeps the row's own dose in its label
\* and its undercut shapes on base_layer_uc + row.
C6_GridDoseTableAnyBaseLayers ==
    grid.state = "done" => GridTableAsStated

\* C6 (amended): the same, for base layers whose fullcut range, undercut
\* range and the clearing layer 2 do not overlap.
C6_GridDoseTableDisjointLayers ==
    (grid.state = "done" /\ GridLayersDisjoint) => GridTableAsStated

\* a 2 x 2 grid on the default base layers whose undercut doses 35.5 and
\* 36.5 are entered in the table as 142 and 146
C6_Witness ==
    /\ grid.state = "done"
    /\ GridLayersDisjoint
    /\ grid.args.n_rows = 2
    /\ grid.args.n_cols = 2
    /\ <<600, 14200, "undercut">> \in SeqToSet(grid.dose_table)
    /\ <<601, 14600, "undercut">> \in SeqToSet(grid.dose_table)
    /\ \E k \in 1..Len(grid.cells) : grid.cells[k].label.text[3] = 36

\* C7: the junction generator is called once per cell (row, col), n_rows x
\* n_cols times in all; the cell's conductor and undercut shapes are both
\* placed at start_pos + (col x spacing, row x spacing), drawn on layers
\* base_layer_fc + col and base_layer_uc + row, so no two cells share both
\* position and layer pair.
C7_GridCellsPlacedOnOwnLayers ==
    grid.state = "done" =>
        /\ Len(grid.cells) = grid.args.n_rows * grid.args.n_cols
        /\ \A col \in 0..(grid.args.n_cols - 1), row \in 0..(grid.args.n_rows - 1) :
              /\ Cardinality(GridCellAt(col, row)) = 1
              /\ \A k \in GridCellAt(col, row) :
                    /\ Layers(grid.cells[k].pin) = {grid.args.base_layer_fc + col}
                    /\ Layers(grid.cells[k].gap) = {grid.args.base_layer_uc + row}
                    /\ Center(grid.cells[k].pin) = grid.cells[k].pin_origin
                    /\ Center(grid.cells[k].gap) = grid.cells[k].gap_origin
        /\ \A k1, k2 \in 1..Len(grid.cells) :
              (/\ grid.cells[k1].pin_origin = grid.cells[k2].pin_origin
               /\ Layers(grid.cells[k1].pin) = Layers(grid.cells[k2].pin)
               /\ Layers(grid.cells[k1].gap) = Layers(grid.cells[k2].gap))
                  => k1 = k2

\* a 2 x 2 grid away from the origin whose four cells are all placed
C7_Witness ==
    /\ grid.state = "done"
    /\ grid.args.n_rows = 2
    /\ grid.args.n_cols = 2
    /\ grid.args.start_pos # <<0, 0>>
    /\ Len(grid.cells) = 4
    /\ \A k \in 1..4 : Len(grid.cells[k].pin) > 0 /\ Len(grid.cells[k].gap) > 0

(***************************************************************************)
(* DoseChipGenerator: one generator object, its add_* methods called in    *)
(* any order, and save.  files maps a file name to what was last written   *)
(* to it; a file name is the list of its parts, so that str.replace on it  *)
(* is a real substitution.                                                 *)
(***************************************************************************)
MaxAdds == 2
MaxSaves == 1
FileNames == {<<"dose_chip", ".gds">>, <<"dose_chip">>}

\* DoseChipGenerator.__init__ with the default chip_size
InitDose ==
    /\ LAYER_PIN = DEFAULT_LAYER_PIN
    /\ LAYER_GAP = DEFAULT_LAYER_GAP
    /\ call = NoCall
    /\ chip = [boundary |-> [size |-> <<5000000, 5000000>>, layer |-> 0,
                             center |-> <<0, 0>>],
               grids |-> <<>>]
    /\ dose_table = <<>>
    /\ dose_arrays = <<>>
    /\ files = <<>>
    /\ grid = NoGrid
    /\ path = NoTarget
    /\ last_op = [kind |-> "new", n |-> 0]

\* self.chip << grid, the labels added after it, and the layer context the
\* junction generators left
Placed(kind, res, labels) ==
    /\ chip' = [chip EXCEPT !.grids =
                   Append(@, [kind |-> kind, cells |-> res.cells,
                              labels |-> labels])]
    /\ LAYER_PIN' = res.LP
    /\ LAYER_GAP' = res.LG
    /\ UNCHANGED <<call, files, grid, pathVars>>

add_dose_test ==
    /\ Len(chip.grids) < MaxAdds
    /\ \E dose_fullcut_range \in FullcutRanges :
        LET a == [junction_func |-> "draw_dolan_junction",
                  geometry |-> <<200, 200>>,
                  dose_fullcut_range |-> dose_fullcut_range,
                  dose_undercut_range |-> <<10000, 20000>>,
                  n_rows |-> 2, n_cols |-> 1, spacing |-> 400000,
                  start_pos |-> <<0, 0>>,
                  base_layer_fc |-> 200, base_layer_uc |-> 600]
            dose_fc == linspace(a.dose_fullcut_range[1],
                                a.dose_fullcut_range[2], a.n_cols)
            dose_uc == linspace(a.dose_undercut_range[1],
                                a.dose_undercut_range[2], a.n_rows)
        IN  \E res \in {create_dose_test_grid(a, LAYER_PIN, LAYER_GAP)} :
              /\ dose_table' = dose_table \o res.dose_table
              /\ dose_arrays' = dose_arrays
              /\ Placed("dose_test", res,
                        add_grid_labels("dose_test", dose_fc, dose_uc, "FC",
                                        "UC", a.start_pos, a.spacing, 1))

add_manhattan_dose_test ==
    /\ Len(chip.grids) < MaxAdds
    /\ LET a == [junction_func |-> "draw_manhattan_junction_for_dose_test",
                 geometry |-> <<200, 200>>,
                 dose_fullcut_range |-> <<120000, 160000>>,
                 dose_undercut_range |-> <<3550, 3650>>,
                 n_rows |-> 1, n_cols |-> 2, spacing |-> 400000,
                 start_pos |-> <<1000000, 0>>,
                 base_layer_fc |-> 200, base_layer_uc |-> 600]
           dose_fc_values == linspace(a.dose_fullcut_range[1],
                                      a.dose_fullcut_range[2], a.n_cols)
           dose_uc_values == linspace(a.dose_undercut_range[1],
                                      a.dose_undercut_range[2], a.n_rows)
       IN  \E res \in {create_dose_test_grid(a, LAYER_PIN, LAYER_GAP)} :
             /\ dose_table' = dose_table \o res.dose_table
             /\ dose_arrays' = dose_arrays
             /\ Placed("dose_test", res,
                       add_grid_labels("dose_test", dose_fc_values,
                                       dose_uc_values, "FC", "UC",
                                       a.start_pos, a.spacing, 1))

add_dose_array ==
    /\ Len(chip.grids) < MaxAdds
    /\ \E dose_fullcut \in {145000}, dose_undercut \in {35000} :
        LET a == [junction_func |-> "draw_dolan_junction",
                  width_range |-> <<200, 400>>, gap_range |-> <<200, 200>>,
                  n_rows |-> 1, n_cols |-> 2, spacing |-> 400000,
                  start_pos |-> <<0, 1000000>>,
                  layer_pin |-> 20, layer_gap |-> 60]
            widths == linspace(a.width_range[1], a.width_range[2], a.n_cols)
            gaps == linspace(a.gap_range[1], a.gap_range[2], a.n_rows)
        IN  \E res \in {create_dose_array_grid(a, LAYER_PIN, LAYER_GAP)} :
              /\ dose_arrays' =
                    Append(dose_arrays,
                           [name |-> "array", dose_fullcut |-> dose_fullcut,
                            dose_undercut |-> dose_undercut,
                            layer_pin |-> 20, layer_gap |-> 60])
              /\ dose_table' =
                    StoreDose(StoreDose(dose_table, 20, dose_fullcut,
                                        "fullcut"),
                              60, dose_undercut * 4, "undercut")
              /\ Placed("dose_array", res,
                        add_grid_labels("dose_array", widths, gaps, "W", "G",
                                        a.start_pos, a.spacing, 1))

add_undercut_test ==
    /\ Len(chip.grids) < MaxAdds
    /\ LET a == [width_range |-> <<200, 200>>, uc_range |-> <<200, 400>>,
                 gap |-> 200, n_rows |-> 2, n_cols |-> 1, spacing |-> 50000,
                 start_pos |-> <<-1000000, 0>>,
                 layer_pin |-> 20, layer_gap |-> 60]
           widths == linspace(a.width_range[1], a.width_range[2], a.n_cols)
           ucs == linspace(a.uc_range[1], a.uc_range[2], a.n_rows)
       IN  \E res \in {create_undercut_test_grid(a, LAYER_PIN, LAYER_GAP)} :
             /\ UNCHANGED <<dose_table, dose_arrays>>
             /\ Placed("undercut_test", res,
                       add_grid_labels("undercut_test", widths, ucs, "W",
                                       "UC", a.start_pos, a.spacing, 1))

add_manhattan_sweep ==
    /\ Len(chip.grids) < MaxAdds
    /\ \E dose_fullcut \in {145000}, dose_undercut \in {35025} :
        LET a == [width_range |-> <<200, 400>>, n_junctions |-> 2,
                  n_cols |-> 1, spacing |-> 500000,
                  start_pos |-> <<0, -1000000>>,
                  layer_pin |-> 20, layer_gap |-> 60]
            widths == linspace(a.width_range[1], a.width_range[2],
                               a.n_junctions)
            n_rows == (a.n_junctions + a.n_cols - 1) \div a.n_cols
            col_widths == IF a.n_cols <= a.n_junctions
                          THEN SubSeq(widths, 1, a.n_cols) ELSE widths
            row_indices == [r \in 1..n_rows |-> (r - 1) * 1000]
        IN  \E res \in {create_manhattan_sweep_grid(a, LAYER_PIN, LAYER_GAP)} :
              /\ dose_arrays' = dose_arrays
              /\ dose_table' =
                    StoreDose(StoreDose(dose_table, 20, dose_fullcut,
                                        "fullcut"),
                              60, dose_undercut * 4, "undercut")
              /\ Placed("manhattan_sweep", res,
                        add_grid_labels("dose_array", col_widths, row_indices,
                                        "Width", "Row", a.start_pos,
                                        a.spacing, 1))

\* filename.replace(old, new)
replace(filename, old, new) ==
    [k \in 1..Len(filename) |-> IF filename[k] = old THEN new ELSE filename[k]]

\* open(name, 'w') ... write: the file holds what this call wrote
Write(fs, name, content) ==
    [n \in (DOMAIN fs) \cup {name} |-> IF n = name THEN content ELSE fs[n]]

\* the loop that fills unique_doses in save: layer -> (dose, dtype)
unique_doses_last_wins(table) ==
    [layer \in {table[n][1] : n \in 1..Len(table)} |->
        LET last == SetMax({n \in 1..Len(table) : table[n][1] = layer})
        IN  <<table[last][2], table[last][3]>>]

unique_doses(table) ==
    [layer \in {table[n][1] : n \in 1..Len(table)} |->
        LET first == SetMin({n \in 1..Len(table) : table[n][1] = layer})
        IN  <<table[first][2], table[first][3]>>]

\* sorted(unique_doses.keys())
RECURSIVE sorted(_)
sorted(S) ==
    IF S = {} THEN <<>>
    ELSE CHOOSE seq \in {<<least>> \o sorted(rest) :
                            <<least, rest>> \in
                                {<<x, S \ {x}>> : x \in {SetMin(S)}}} : TRUE

\* Device.write_gds(filename) names the file it writes: phidl appends
\* '.gds' to a name that does not end in it
write_gds_name(filename) ==
    IF filename[Len(filename)] = ".gds" THEN filename
    ELSE Append(filename, ".gds")

\* what a failed save leaves: the file system and the exception that
\* reaches the caller (save has no try/except and removes nothing)
SaveFailures == {"none", "write_gds", "open", "write"}
Raised(fs) == [files |-> fs, err |-> "OSError"]

\* DoseChipGenerator.save; a dose-table line is (layer, dose printed with
\* one decimal, in tenths).  fail names the I/O call that raises: write_gds
\* (which may or may not have created its file by then), the open of the
\* dose-table file, or the flush of the buffered writes to it, which has
\* put none ('at' = 0) or all of the dose lines on disk by then.
save ==
    /\ last_op.n < MaxSaves
    /\ \E filename \in FileNames, fail \in SaveFailures :
      \E unique \in {unique_doses(dose_table)} :
      \E layers \in {sorted(DOMAIN unique)} :
      LET layout_file == write_gds_name(filename)
          dose_table_file == replace(filename, ".gds", "_dose_table.txt")
          gds == [kind |-> "gds", chip |-> chip, complete |-> TRUE]
          txt == [kind |-> "dose_table", complete |-> TRUE,
                  header |-> <<"# DOSE TABLE", "# Generated",
                               "# Layer, Dose (uC/cm^2)">>,
                  lines |-> [n \in 1..Len(layers) |->
                               <<layers[n],
                                 RoundDiv(unique[layers[n]][1], 10)>>],
                  arrays |-> [n \in 1..Len(dose_arrays) |->
                                [name |-> dose_arrays[n].name,
                                 layer_pin |-> dose_arrays[n].layer_pin,
                                 dose_fullcut |->
                                     RoundDiv(dose_arrays[n].dose_fullcut, 10),
                                 layer_gap |-> dose_arrays[n].layer_gap,
                                 dose_undercut |->
                                     RoundDiv(dose_arrays[n].dose_undercut,
                                              10)]]]
          written == Write(files, layout_file, gds)
      IN  /\ \E r \in
                CASE fail = "none" ->
                       {[files |-> Write(written, dose_table_file, txt),
                         err |-> "none"]}
                  [] fail = "write_gds" ->
                       {Raised(files),
                        Raised(Write(files, layout_file,
                                     [gds EXCEPT !.complete = FALSE]))}
                  [] fail = "open" -> {Raised(written)}
                  [] fail = "write" ->
                       {Raised(Write(written, dose_table_file,
                                     [txt EXCEPT
                                        !.complete = FALSE,
                                        !.lines = SubSeq(@, 1, at),
                                        !.arrays = <<>>])) :
                          at \in {0, Len(layers)}} :
                /\ files' = r.files
                /\ last_op' = [kind |-> "save", n |-> last_op.n + 1,
                               filename |-> filename, err |-> r.err]
          /\ UNCHANGED <<layerVars, dose_table, dose_arrays, chip, grid,
                         path>>

NextDose ==
    \/ add_dose_test
    \/ add_manhattan_dose_test
    \/ add_dose_array
    \/ add_undercut_test
    \/ add_manhattan_sweep
    \/ save

SpecDose == InitDose /\ [][NextDose]_vars

\* C4: after any sequence of add_* calls dose_table holds at most one entry
\* per layer id, the first one inserted for that layer.
C4_DoseTableOneEntryPerLayer ==
    \A m, n \in 1..Len(dose_table) :
        dose_table[m][1] = dose_table[n][1] => m = n

\* the first dose inserted in a table for a layer
FirstDose(table, layer) ==
    table[SetMin({n \in 1..Len(table) : table[n][1] = layer})][2]

DoseFileAsStated(f, table) ==
    /\ Len(f.header) = 3
    /\ {f.lines[n][1] : n \in 1..Len(f.lines)} = {table[n][1] : n \in 1..Len(table)}
    /\ \A m, n \in 1..Len(f.lines) : m < n => f.lines[m][1] < f.lines[n][1]
    /\ \A n \in 1..Len(f.lines) :
          LET dose == FirstDose(table, f.lines[n][1])
          IN  /\ f.lines[n][2] * 10 - dose <= 5
              /\ dose - f.lines[n][2] * 10 <= 5

\* C5: the dose-table file that save writes has, after the header, one
\* line per distinct layer id of dose_table, in strictly ascending layer
\* order, and the dose on a layer's line is the dose of the first entry
\* inserted for that layer, printed with one decimal.
C5_DoseFileOneLinePerLayer ==
    [][\A name \in DOMAIN files' :
          (/\ last_op'.kind = "save"
           /\ last_op'.err = "none"
           /\ files'[name].kind = "dose_table"
           /\ (name \notin DOMAIN files \/ files[name] # files'[name]))
              => DoseFileAsStated(files'[name], dose_table)]_vars

\* a dose-table file written from a table that holds two different doses
\* for one layer and a dose that is not a whole number of tenths
C5_Witness ==
    \E name \in DOMAIN files :
        /\ files[name].kind = "dose_table"
        /\ DoseFileAsStated(files[name], dose_table)
        /\ Len(files[name].lines) >= 3
        /\ \E m, n \in 1..Len(dose_table) :
              /\ m < n
              /\ dose_table[m][1] = dose_table[n][1]
              /\ dose_table[m][2] # dose_table[n][2]
        /\ \E n \in 1..Len(files[name].lines) :
              files[name].lines[n][2] * 10 #
                  FirstDose(dose_table, files[name].lines[n][1])

(***************************************************************************)
(* Paths: one drawing target (a Structure on a one-layer or a two-layer    *)
(* chip, a TwoLayerManager in either mode, or a bare StateTracker) and the *)
(* segment operations applied to it one after another.  Headings and bend  *)
(* angles are multiples of 90 degrees, for which cos and sin are exact.    *)
(***************************************************************************)
MaxOps == 3
TargetKinds == {"Structure", "Structure2", "TwoLayerManager", "TwoLayerManager2", "StateTracker"}
Lengths == {10000, 4000}
PathWidths == {<<None, None>>, <<0, 1000>>, <<1500, 0>>}
TaperWidths == {<<1500, 4000, 1000, 2000>>, <<0, 0, 1000, 2000>>}
\* an object of a class the facade does not know (a phidl Device)
UnsupportedKinds == {"Device"}
Angles == {-180, -90, 0, 90, 180, 270}
Radii == {None, 20000}

\* a fresh target of each kind at a position and heading
NewTarget(kind, position, direction, LP, LG) ==
    CASE kind = "Structure" -> Structure(FALSE, position, direction, LP, LG)
      [] kind = "Structure2" -> Structure(TRUE, position, direction, LP, LG)
      [] kind = "TwoLayerManager" -> TwoLayerManager(position, direction, FALSE)
      [] kind = "TwoLayerManager2" -> TwoLayerManager(position, direction, TRUE)
      [] kind = "StateTracker" -> StateTracker(position, direction)
      [] OTHER -> [type |-> kind]

\* the path state a target holds: every (position, heading) pair it keeps
PathStates(t) ==
    CASE t.type = "Structure" ->
           {<<t._last, t._last_direction>>,
            <<t._manager.pin_state.last, t._manager.pin_state.last_direction>>,
            <<t._manager.gap_state.last, t._manager.gap_state.last_direction>>}
      [] t.type = "TwoLayerManager" ->
           {<<t.pin_state.last, t.pin_state.last_direction>>,
            <<t.gap_state.last, t.gap_state.last_direction>>}
      [] t.type = "StateTracker" -> {<<t.last, t.last_direction>>}
      [] OTHER -> {}

InitPath ==
    /\ LAYER_PIN = DEFAULT_LAYER_PIN
    /\ LAYER_GAP = DEFAULT_LAYER_GAP
    /\ call = NoCall
    /\ DoseIdle
    /\ grid = NoGrid
    /\ \E kind \in TargetKinds \cup UnsupportedKinds :
          path = NewTarget(kind, <<0, 0>>, 0, LAYER_PIN, LAYER_GAP)
    /\ last_op = [kind |-> "new", n |-> 0]

\* the target after an operation and the record of the operation: where it
\* started, its arguments, the polygons it added and whether it raised
Drawn(kind, length, angle, radius, r) ==
    /\ path' = r.t
    /\ last_op' = [kind |-> kind, n |-> last_op.n + 1,
                   from |-> PathStates(path),
                   length |-> length, angle |-> angle, radius |-> radius,
                   polys |-> r.polys, err |-> r.err]
    /\ UNCHANGED <<layerVars, doseVars, grid>>

PathStraight ==
    /\ last_op.n < MaxOps
    /\ \E length \in Lengths, w \in PathWidths :
          Drawn("straight", length, 0, None,
                CPWStraight(path, length, w[1], w[2], LAYER_PIN, LAYER_GAP))

PathTaper ==
    /\ last_op.n < MaxOps
    /\ \E w \in TaperWidths :
          Drawn("taper", 6000, 0, None,
                CPWLinearTaper(path, 6000, w[1], w[2], w[3], w[4],
                               LAYER_PIN, LAYER_GAP))

PathBend ==
    /\ last_op.n < MaxOps
    /\ \E angle \in Angles, radius \in Radii :
          Drawn("bend", 0, angle, radius,
                CPWBend(path, angle, None, None, radius, LAYER_PIN,
                        LAYER_GAP))

\* manager.add_cpw_bend called directly, with its default layers
ManagerBend ==
    /\ last_op.n < MaxOps
    /\ path.type = "TwoLayerManager"
    /\ \E angle \in {-90, 0, 90}, w \in {<<1500, 1000>>, <<0, 1000>>} :
          LET r == add_cpw_bend(path, angle, 20000, w[1], w[2],
                                DEFAULT_LAYER_PIN, DEFAULT_LAYER_GAP)
          IN  Drawn("add_cpw_bend", 0, angle, 20000, Ok(r.m, r.polys))

\* Structure.move and StateTracker.move
PathMove ==
    /\ last_op.n < MaxOps
    /\ path.type \in {"Structure", "StateTracker"}
    /\ \E direction \in {None, 90} :
          Drawn("move", 4000, 0, None,
                Ok(IF path.type = "Structure"
                   THEN StructureMove(path, 4000, direction)
                   ELSE TrackerMove(path, 4000, direction), <<>>))

\* s.last = value
PathSetLast ==
    /\ last_op.n < MaxOps
    /\ path.type = "Structure"
    /\ \E value \in {<<2000, -1000>>} :
          Drawn("last", 0, 0, None, Ok(SetLast(path, value), <<>>))

\* s.last_direction = value
PathSetLastDirection ==
    /\ last_op.n < MaxOps
    /\ path.type = "Structure"
    /\ \E value \in {90} :
          Drawn("last_direction", 0, 0, None,
                Ok(SetLastDirection(path, value), <<>>))

\* phidl_bridge.LAYER_PIN, phidl_bridge.LAYER_GAP = 20, 60: the layer
\* context reassigned after module load, as the junction generators do
PathSetLayers ==
    /\ LAYER_PIN = DEFAULT_LAYER_PIN
    /\ LAYER_PIN' = 20
    /\ LAYER_GAP' = 60
    /\ last_op' = [kind |-> "set_layers", n |-> last_op.n]
    /\ UNCHANGED <<call, doseVars, grid, path>>

\* CPWStraight(s.pin_layer, length) and CPWStraight(s.gap_layer, length):
\* a segment drawn through a layer sub-structure of a two-layer Structure;
\* drawer_from is where the sub-structure's own drawer stood before
PathLayerStraight ==
    /\ last_op.n < MaxOps
    /\ path.type = "Structure"
    /\ path.has_layers
    /\ \E sub \in {"pin_layer", "gap_layer"} :
       \E r \in {CPWStraight(path[sub], 4000, None, None, LAYER_PIN,
                             LAYER_GAP)} :
          /\ path' = [path EXCEPT ![sub] = r.t]
          /\ last_op' = [kind |-> "layer_straight", n |-> last_op.n + 1,
                         from |-> PathStates(path), sub |-> sub,
                         drawer_from |->
                             <<path[sub]._manager.pin_state.last,
                               path[sub]._manager.pin_state.last_direction>>,
                         length |-> 4000, angle |-> 0, radius |-> None,
                         polys |-> r.polys, err |-> r.err]
          /\ UNCHANGED <<layerVars, doseVars, grid>>

NextPath ==
    \/ PathLayerStraight
    \/ PathSetLayers
    \/ PathStraight
    \/ PathTaper
    \/ PathBend
    \/ ManagerBend
    \/ PathMove
    \/ PathSetLast
    \/ PathSetLastDirection

SpecPath == InitPath /\ [][NextPath]_vars

\* the unit vector of a heading that is a multiple of 90 degrees
Unit(a) ==
    CASE a % 360 = 0 -> <<1, 0>>
      [] a % 360 = 90 -> <<0, 1>>
      [] a % 360 = 180 -> <<-1, 0>>
      [] a % 360 = 270 -> <<0, -1>>

\* C8: a straight segment or taper of length L drawn from position P with
\* heading d leaves the path state at P + L*(cos d, sin d) with heading d,
\* in either drawing mode, for any widths and after any earlier segments.
C8_StraightEndpoint ==
    (last_op.kind \in {"straight", "taper"} /\ last_op.err = "none") =>
        \A pre \in last_op.from, post \in PathStates(path) :
            /\ post[1] = <<pre[1][1] + last_op.length * Unit(pre[2])[1],
                           pre[1][2] + last_op.length * Unit(pre[2])[2]>>
            /\ post[2] = pre[2]

\* a taper drawn on a two-layer Structure as the third segment, from a
\* heading that earlier bends turned away from the x axis
C8_Witness ==
    /\ last_op.kind = "taper"
    /\ last_op.n = 3
    /\ path.type = "Structure"
    /\ path.two_layer
    /\ Len(last_op.polys) > 0
    /\ \E pre \in last_op.from : pre[2] % 360 = 180 /\ pre[1] # <<0, 0>>

\* C9: a bend of angle 0, through CPWBend or add_cpw_bend, on any supported
\* target and with any radius and widths, leaves position and heading as
\* they were and adds no polygon.
C9_ZeroBendIsNoOp ==
    (last_op.kind \in {"bend", "add_cpw_bend"} /\ last_op.angle = 0) =>
        /\ last_op.err = "none"
        /\ PathStates(path) = last_op.from
        /\ last_op.polys = <<>>

\* add_cpw_bend called with angle 0 on a manager that earlier segments
\* moved away from the origin
C9_Witness ==
    /\ last_op.kind = "add_cpw_bend"
    /\ last_op.angle = 0
    /\ last_op.n >= 2
    /\ \E pre \in last_op.from : pre[1] # <<0, 0>> /\ pre[2] # 0

\* C10: a bend of signed angle theta # 0 and radius r drawn from position P
\* with heading d leaves the heading at exactly d + theta and the position
\* at P rotated by theta about the centre P + r*(cos(d + s*90), sin(d +
\* s*90)), s = sign(theta), so that the chord from start to end has length
\* 2*r*sin(|theta|/2); a Structure, a TwoLayerManager and a StateTracker
\* started from the same state reach the same end state.
C10_BendEndState ==
    (last_op.kind \in {"bend", "add_cpw_bend"} /\ last_op.angle # 0) =>
        \A pre \in last_op.from, post \in PathStates(path) :
            LET P == pre[1]
                d == pre[2]
                theta == last_op.angle
                r == IF last_op.radius = None THEN default_radius
                     ELSE last_op.radius
                s == IF theta > 0 THEN 1 ELSE -1
                centre == <<P[1] + r * Unit(d + s * 90)[1],
                            P[2] + r * Unit(d + s * 90)[2]>>
                x == P[1] - centre[1]
                y == P[2] - centre[2]
                c == Unit(theta)[1]
                sn == Unit(theta)[2]
                \* the chord and the radius in um (both whole numbers)
                cx == (post[1][1] - P[1]) \div 1000
                cy == (post[1][2] - P[2]) \div 1000
                rum == r \div 1000
            IN  /\ last_op.err = "none"
                /\ post[2] = d + theta
                /\ post[1] = <<centre[1] + x * c - y * sn,
                               centre[2] + x * sn + y * c>>
                /\ <<cx * 1000, cy * 1000, rum * 1000>> =
                      <<post[1][1] - P[1], post[1][2] - P[2], r>>
                /\ cx * cx + cy * cy = 2 * rum * rum * (1 - c)
                /\ \A kind \in TargetKinds :
                      PathStates(CPWBend(NewTarget(kind, P, d, LAYER_PIN,
                                                   LAYER_GAP),
                                         theta, None, None, r, LAYER_PIN,
                                         LAYER_GAP).t) = {post}

\* a clockwise quarter turn on a bare StateTracker, with the default
\* radius, that takes the heading below 0 after an earlier segment
C10_Witness ==
    /\ last_op.kind = "bend"
    /\ last_op.angle = -90
    /\ last_op.radius = None
    /\ last_op.n >= 2
    /\ path.type = "StateTracker"
    /\ path.last_direction < 0
    /\ \E pre \in last_op.from : pre[1] # <<0, 0>>

\* C11: CPWStraight, CPWLinearTaper and CPWBend called on a target that is
\* not a Structure, a TwoLayerManager or a StateTracker raise TypeError for
\* every argument combination, a bend angle of 0 included; none returns
\* silently.
C11_UnsupportedTargetRaisesTypeError ==
    (/\ path.type \in UnsupportedKinds
     /\ last_op.kind \in {"straight", "taper", "bend"}) =>
        last_op.err = "TypeError"

(***************************************************************************)
(* Chip: the bridge's chip object, whose device collects what the          *)
(* structures on it draw, and its save path.  A merged polygon stands for  *)
(* the region covered by the polygons of one layer: it keeps the layer and *)
(* the set of drawn polygons it is the union of.  The merge libraries that *)
(* can be imported are an input of each call.                              *)
(***************************************************************************)
MaxDraws == 2
MergeLibraries == {"shapely", "gdspy"}
ChipNames == {"chip"}

\* Chip.__init__: an empty main device
Chip(name, two_layer) ==
    [type |-> "Chip", name |-> name, two_layer |-> two_layer,
     device |-> <<>>]

\* the polygons a merged polygon covers
Covered(poly) == IF poly.kind = "merged" THEN poly.of ELSE {poly}

\* Device.get_polygons(by_spec=True): layer -> polygons of that layer
get_polygons(device) ==
    [layer \in {device[n].layer : n \in 1..Len(device)} |->
        {device[n] : n \in {k \in 1..Len(device) : device[k].layer = layer}}]

\* the device built by the merge loop: per layer the union of its polygons
Merged(polys_by_layer) ==
    LET layers == sorted(DOMAIN polys_by_layer)
    IN  [n \in 1..Len(layers) |->
            [kind |-> "merged", layer |-> layers[n],
             of |-> UNION {Covered(poly) :
                              poly \in polys_by_layer[layers[n]]}]]

\* Chip._merge_geometry: the chip afterwards and the exception raised.
\* Without shapely and without gdspy both imports raise ImportError, both
\* are swallowed, and the final 'self.device = merged_device' reads a
\* local that was never bound.
_merge_geometry(c, importable) ==
    IF importable \cap MergeLibraries # {}
    THEN IF c.device = <<>>
         THEN [chip |-> c, err |-> "none"]
         ELSE [chip |-> [c EXCEPT !.device = Merged(get_polygons(c.device))],
               err |-> "none"]
    ELSE [chip |-> c, err |-> "UnboundLocalError"]

\* Chip.save: merge, then device.write_gds(fname); an omitted fname (None)
\* is the empty name
Chip_save(c, fname_arg, importable, fs) ==
    LET fname == IF fname_arg = <<>> THEN <<c.name, ".gds">> ELSE fname_arg
        m == _merge_geometry(c, importable)
    IN  IF m.err # "none"
        THEN [chip |-> m.chip, files |-> fs, err |-> m.err]
        ELSE [chip |-> m.chip,
              files |-> Write(fs, fname,
                              [kind |-> "gds", polys |-> m.chip.device]),
              err |-> "none"]

\* Chip.get_merged_device
get_merged_device(c, importable) ==
    LET m == _merge_geometry(c, importable)
    IN  [chip |-> m.chip, files |-> <<>>, err |-> m.err]

InitChip ==
    /\ LAYER_PIN = DEFAULT_LAYER_PIN
    /\ LAYER_GAP = DEFAULT_LAYER_GAP
    /\ call = NoCall
    /\ dose_table = <<>>
    /\ dose_arrays = <<>>
    /\ \E name \in ChipNames, two_layer \in BOOLEAN :
          chip = Chip(name, two_layer)
    /\ files = <<>>
    /\ grid = NoGrid
    /\ path = NoTarget
    /\ last_op = [kind |-> "new", draws |-> 0]

\* s = Structure(chip, start, direction); CPWStraight(s, length): the
\* polygons go to chip.device
ChipDraw ==
    /\ last_op.draws < MaxDraws
    /\ \E start \in {<<0, 0>>, <<10000, 0>>}, direction \in {0, 90},
          length \in Lengths :
          LET s == Structure(chip.two_layer, start, direction, LAYER_PIN,
                             LAYER_GAP)
              r == CPWStraight(s, length, None, None, LAYER_PIN, LAYER_GAP)
          IN  /\ chip' = [chip EXCEPT !.device = @ \o r.polys]
              /\ last_op' = [kind |-> "draw",
                             draws |-> last_op.draws + 1]
    /\ UNCHANGED <<layerVars, dose_table, dose_arrays, files, grid, path>>

\* the chip and the files after a call, and the record of the call: the
\* libraries it could import, the device it started from, the exception
ChipCalled(kind, importable, r) ==
    /\ chip' = r.chip
    /\ last_op' = [kind |-> kind,
                   draws |-> last_op.draws,
                   importable |-> importable, device |-> chip.device,
                   err |-> r.err]
    /\ UNCHANGED <<layerVars, dose_table, dose_arrays, grid, path>>

ChipSave ==
    \E fname \in {<<>>, <<"out", ".gds">>},
          importable \in SUBSET MergeLibraries :
          \E r \in {Chip_save(chip, fname, importable, files)} :
              /\ ChipCalled("save", importable, r)
              /\ files' = r.files

ChipGetMergedDevice ==
    \E importable \in SUBSET MergeLibraries :
          \E r \in {get_merged_device(chip, importable)} :
              /\ ChipCalled("get_merged_device", importable, r)
              /\ UNCHANGED files

NextChip ==
    \/ ChipDraw
    \/ ChipSave
    \/ ChipGetMergedDevice

SpecChip == InitChip /\ [][NextChip]_vars

\* C12: when neither shapely nor gdspy can be imported, Chip.save and
\* Chip.get_merged_device complete normally and the chip keeps its
\* original, unmerged polygons on their original layers.
C12_SaveWithoutMergeLibrary ==
    (/\ last_op.kind \in {"save", "get_merged_device"}
     /\ last_op.importable \cap MergeLibraries = {}) =>
        /\ last_op.err = "none"
        /\ chip.device = last_op.device

\* C13: when a write performed by DoseChipGenerator.save fails, the error
\* reaches the caller and no output file of that save is left behind: every
\* file on disk afterwards is a file that was there before, unchanged.
C13_FailedSaveLeavesNoFile ==
    [][(last_op'.kind = "save" /\ last_op'.err # "none") =>
          \A name \in DOMAIN files' :
              /\ name \in DOMAIN files
              /\ files'[name] = files[name]]_vars

\* C17: after save(filename) completes, the layout file is at filename, the
\* dose-table file is at filename with '.gds' replaced by
\* '_dose_table.txt', and the two are distinct files, for any filename.
C17_SaveWritesTwoDistinctFiles ==
    (last_op.kind = "save" /\ last_op.err = "none") =>
        LET dose_table_file ==
                replace(last_op.filename, ".gds", "_dose_table.txt")
        IN  /\ last_op.filename \in DOMAIN files
            /\ files[last_op.filename].kind = "gds"
            /\ dose_table_file \in DOMAIN files
            /\ files[dose_table_file].kind = "dose_table"
            /\ dose_table_file # last_op.filename

(***************************************************************************)
(* The shapes a junction generator returns, read back from their polygons  *)
(***************************************************************************)
\* twice the bounding-box centre of a device (lengths are whole nm, so the
\* centre itself can fall on a half nm)
CentreTwice(dev) ==
    LET b == BBox(dev)
    IN  <<b[1][1] + b[2][1], b[1][2] + b[2][2]>>

\* C14: for every junction generator and every parameter choice, each of
\* the two returned shapes has its bounding-box centre at the origin (to
\* within half a nanometre, the resolution of the lengths), whatever the
\* other shape is and however unequal the left and right sides are.
C14_ShapesCentredAtOrigin ==
    (call.fn \in Generators /\ ~call.raised) =>
        \A dev \in {call.pin_dev, call.gap_dev} :
            /\ CentreTwice(dev)[1] \in {-1, 0, 1}
            /\ CentreTwice(dev)[2] \in {-1, 0, 1}

\* an asymmetric junction (left 0.2, right 4.0) came back with two
\* non-empty shapes of different extent, both centred
C14_Witness ==
    /\ call.fn = "draw_asymmetric_junction"
    /\ ~call.raised
    /\ call.args.left_width # call.args.right_width
    /\ Len(call.pin_dev) > 0
    /\ Len(call.gap_dev) > 0
    /\ BBox(call.pin_dev) # BBox(call.gap_dev)
    /\ BBox(call.pin_dev)[1] # BBox(call.pin_dev)[2]
    /\ CentreTwice(call.pin_dev) = <<0, 0>>

\* the number of junctions a Dolan-type call drew, and the width of a
\* four-point polygon at its start
JuncCount ==
    IF call.fn = "draw_dolan_junction_array" THEN call.args.num_juncs ELSE 1

QuadWidth(q) == q.b0 - q.a0

\* C15: in draw_dolan_junction, as in the variable-undercut and the array
\* variant, the right thin section and the right taper have width
\* max(width, right_width) on the conductor pass and their border strips
\* on the undercut pass are max(width, right_width) apart, so the right
\* side is never narrower than the left side.
C15_RightSideUsesMaxWidth ==
    (/\ call.fn \in {"draw_dolan_junction",
                     "draw_dolan_junction_variable_uc",
                     "draw_dolan_junction_array"}
     /\ ~call.raised) =>
        LET n == JuncCount
            w == Max(call.args.width, call.args.right_width)
            pin == call.pin_dev
            gap == call.gap_dev
        IN  /\ QuadWidth(pin[n + 3]) = w
            /\ QuadWidth(pin[n + 4]) = w
            /\ gap[3 * n + 7].a0 - gap[3 * n + 6].b0 = w
            /\ gap[3 * n + 9].a0 - gap[3 * n + 8].b0 = w
            /\ QuadWidth(pin[n + 3]) >= QuadWidth(pin[3])

\* C16: for every width and gap, draw_dolan_junction_array with
\* num_juncs = 1 returns the same conductor polygon set and the same
\* undercut polygon set as draw_dolan_junction with that width and gap,
\* the default right_width and the same layers.
C16_ArrayOfOneIsSingleJunction ==
    (/\ call.fn = "draw_dolan_junction_array"
     /\ call.args.num_juncs = 1
     /\ ~call.raised) =>
        \E single \in {draw_dolan_junction(
                           call.args.width, call.args.gap, call.layer_pin,
                           call.layer_gap, default_right_width,
                           call.orig_pin, call.orig_gap, 0)} :
            /\ SeqToSet(call.pin_dev) = SeqToSet(single.pin_dev)
            /\ SeqToSet(call.gap_dev) = SeqToSet(single.gap_dev)

\* C18: every grid generator variant (dose test, dose array, undercut
\* test, Manhattan width sweep) attaches to each cell it places one text
\* label and one enclosing reference box, positioned above the cell.
C18_EveryCellLabelledAndBoxed ==
    \A g \in 1..Len(chip.grids) :
        \A c \in 1..Len(chip.grids[g].cells) :
            LET cell == chip.grids[g].cells[c]
            IN  /\ cell.label.layer # None
                /\ cell.box.layer # None
                /\ cell.label.at[1] = cell.pin_origin[1]
                /\ cell.label.at[2] > cell.pin_origin[2]
                /\ cell.box.center[1] = cell.pin_origin[1]
                /\ cell.box.center[2] > cell.pin_origin[2]

\* C19: a straight, a taper or a bend drawn through the facade on an
\* ordinary (not layer-specific) Structure puts its polygons on the layers
\* that LAYER_PIN / LAYER_GAP name at the time of the call, also after the
\* layer context was reassigned since module load.
C19_SegmentsOnCurrentLayerContext ==
    (/\ last_op.kind \in {"straight", "taper", "bend"}
     /\ last_op.err = "none"
     /\ path.type = "Structure"
     /\ path.target = None) =>
        Layers(last_op.polys) \subseteq
            (IF path.two_layer THEN {LAYER_PIN, LAYER_GAP} ELSE {LAYER_PIN})

\* C20: after any sequence of facade operations on a Structure (straight,
\* taper, bend, move, assignment to last, assignment to last_direction),
\* Structure.last is the position and Structure.last_direction the heading
\* held by both the pin state and the gap state of its drawer.
C20_FacadeInSyncWithDrawer ==
    path.type = "Structure" =>
        /\ path._manager.pin_state.last = path._last
        /\ path._manager.gap_state.last = path._last
        /\ path._manager.pin_state.last_direction = path._last_direction
        /\ path._manager.gap_state.last_direction = path._last_direction

\* a bend drawn as the third operation on a two-layer Structure that an
\* assignment or a move had put at a position no segment leads to
C20_Witness ==
    /\ last_op.kind = "bend"
    /\ last_op.n = 3
    /\ last_op.angle # 0
    /\ path.type = "Structure"
    /\ path.two_layer
    /\ \E pre \in last_op.from : pre[1][2] = -1000 /\ pre[2] = 90
    /\ path._manager.gap_state.last = path._last
    /\ path._last_direction # 90

\* C21: on a two-layer chip a segment drawn through the pin_layer or the
\* gap_layer sub-structure of a Structure starts from the parent's current
\* position and heading, after any moves, assignments and draws on the
\* parent (the sub-structure itself not drawn through before: its drawer
\* still stands where the parent was constructed).
C21_LayerStructureStartsAtParent ==
    (/\ last_op.kind = "layer_straight"
     /\ last_op.err = "none"
     /\ last_op.drawer_from = <<<<0, 0>>, 0>>) =>
        /\ Len(last_op.polys) > 0
        /\ \A pre \in last_op.from, n \in 1..Len(last_op.polys) :
              /\ last_op.polys[n].p = pre[1]
              /\ last_op.polys[n].dir = pre[2]

\* C22: in the undercut pass of draw_dolan_junction and of the variable-
\* undercut variant, each border strip drawn along a conductor edge (beside
\* the bars, the tapers and the thin sections) has width uc perpendicular
\* to the draw axis: 0.3 um, or the caller's uc.
C22_BorderStripWidthIsUc ==
    (/\ call.fn \in {"draw_dolan_junction",
                     "draw_dolan_junction_variable_uc"}
     /\ ~call.raised) =>
        LET uc == IF call.fn = "draw_dolan_junction" THEN uc_default
                  ELSE call.args.uc
            gap == call.gap_dev
        IN  /\ Len(gap) = 15
            /\ \A n \in (2..7) \cup (9..14) :
                  /\ gap[n].b0 - gap[n].a0 = uc
                  /\ gap[n].b1 - gap[n].a1 = uc

\* the interval a polygon drawn along the x axis covers on that axis
AxisStart(q) == q.p[1]
AxisEnd(q) == q.p[1] + q.len

\* C23: in draw_dolan_junction the conductor pass emits no polygon over the
\* gap and only advances its position by gap; the undercut pass emits one
\* solid rectangle of width max(left_width, right_width) + uc which, once
\* both shapes are centred, covers along the draw axis exactly the interval
\* the conductor pass skipped between the two thin sections.
C23_GapSkippedThenFilled ==
    (call.fn = "draw_dolan_junction" /\ ~call.raised) =>
        LET pin == call.pin_dev
            gap == call.gap_dev
            lo == AxisEnd(pin[3])
            hi == AxisStart(pin[4])
            Over(q) == AxisStart(q) < hi /\ AxisEnd(q) > lo
        IN  /\ Len(pin) = 6
            /\ \A n \in 1..Len(pin) : pin[n].dir = 0 /\ ~Over(pin[n])
            /\ hi - lo = call.args.gap
            /\ {n \in 1..Len(gap) : Over(gap[n])} = {8}
            /\ gap[8].dir = 0
            /\ AxisStart(gap[8]) = lo
            /\ AxisEnd(gap[8]) = hi
            /\ gap[8].a0 = -gap[8].b0
            /\ gap[8].a1 = gap[8].a0
            /\ gap[8].b1 = gap[8].b0
            /\ gap[8].b0 - gap[8].a0 =
                  Max(call.args.width, call.args.right_width) + uc_default

\* a junction whose left thin section is the wider one, so that the
\* rectangle over the gap takes its width from the left side
C23_Witness ==
    /\ call.fn = "draw_dolan_junction"
    /\ ~call.raised
    /\ call.args.width > call.args.right_width
    /\ call.args.gap > 0
    /\ Len(call.gap_dev) = 15
    /\ call.gap_dev[8].b0 - call.gap_dev[8].a0 = 4300
    /\ call.gap_dev[8].len = call.args.gap

\* the lengths of the four leads of the Manhattan junction, in draw order
LeadLengths ==
    <<bandage_l, bandage_l, (125 * angle_l) \div 100, (125 * angle_l) \div 100>>

\* C24: each of the four leads of the Manhattan junction gets, on the
\* undercut layer, two side border strips of width uc = 0.5 um that run the
\* lead's length minus the paddle length, and two end paddles of 1.0 x 1.5.
C24_ManhattanLeadUndercut ==
    (call.fn = "draw_manhattan_junction" /\ ~call.raised) =>
        LET gap == call.gap_dev
        IN  /\ Len(gap) = 16
            /\ \A k \in 1..4 :
                  LET at == 4 * (k - 1)
                  IN  /\ \A n \in {at + 1, at + 4} :
                            /\ gap[n].b0 - gap[n].a0 = paddle_width_default
                            /\ gap[n].len = paddle_length_default
                      /\ \A n \in {at + 2, at + 3} :
                            /\ gap[n].b0 - gap[n].a0 = manhattan_uc
                            /\ gap[n].len =
                                  LeadLengths[k] - paddle_length_default

(***************************************************************************)
(* Managers: a TwoLayerManager made by create_structure with its default   *)
(* widths and radius, and the facade's segment functions called on it      *)
(* with widths given or omitted.                                           *)
(***************************************************************************)
ManagerDefaults == {<<10000, 5000>>, <<1500, 1000>>}
ManagerStarts == {<<<<0, 0>>, 0>>, <<<<5000, 0>>, 90>>}
StraightWidths == {<<None, None>>, <<1500, 1000>>, <<4000, 500>>, <<0, 1000>>}
BendWidths == {<<None, None>>, <<1500, 1000>>}

\* create_structure: a single-layer manager that keeps its defaults as
\* attributes of its device
create_structure(position, direction, pinw, gapw, radius) ==
    [TwoLayerManager(position, direction, FALSE) EXCEPT
        !.device_pinw = pinw, !.device_gapw = gapw, !.device_radius = radius]

InitManager ==
    /\ LAYER_PIN = DEFAULT_LAYER_PIN
    /\ LAYER_GAP = DEFAULT_LAYER_GAP
    /\ call = NoCall
    /\ DoseIdle
    /\ grid = NoGrid
    /\ \E start \in ManagerStarts, d \in ManagerDefaults :
          path = create_structure(start[1], start[2], d[1], d[2],
                                  fallback_radius)
    /\ last_op = [kind |-> "new", n |-> 0]

\* the manager after a facade call and the record of the call: the manager
\* it was made on, the widths as passed (None when omitted) and the
\* polygons it added
ManagerDrawn(kind, w, length, angle, r) ==
    /\ path' = r.t
    /\ last_op' = [kind |-> kind, n |-> last_op.n + 1, before |-> path,
                   pinw |-> w[1], gapw |-> w[2], length |-> length,
                   angle |-> angle, polys |-> r.polys, err |-> r.err]
    /\ UNCHANGED <<layerVars, doseVars, grid>>

ManagerCPWStraight ==
    /\ last_op.n < MaxOps
    /\ \E w \in StraightWidths :
          ManagerDrawn("straight", w, 4000, 0,
                       CPWStraight(path, 4000, w[1], w[2], LAYER_PIN,
                                   LAYER_GAP))

ManagerCPWLinearTaper ==
    /\ last_op.n < MaxOps
    /\ \E w \in {<<1500, 4000, 1000, 500>>} :
          ManagerDrawn("taper", <<w[2], w[4]>>, 6000, 0,
                       CPWLinearTaper(path, 6000, w[1], w[2], w[3], w[4],
                                      LAYER_PIN, LAYER_GAP))

ManagerCPWBend ==
    /\ last_op.n < MaxOps
    /\ \E angle \in {-90, 90}, w \in BendWidths :
          ManagerDrawn("bend", w, 0, angle,
                       CPWBend(path, angle, w[1], w[2], 20000, LAYER_PIN,
                               LAYER_GAP))

NextManager ==
    \/ ManagerCPWStraight
    \/ ManagerCPWLinearTaper
    \/ ManagerCPWBend

SpecManager == InitManager /\ [][NextManager]_vars

\* a straight segment drawn in single-layer mode with both widths given,
\* and what it must look like apart from the distance between its strips
SingleLayerStraight ==
    /\ last_op.kind = "straight"
    /\ last_op.err = "none"
    /\ ~last_op.before.two_layer
    /\ last_op.pinw # None
    /\ last_op.gapw # None
    /\ last_op.gapw > 0

StripsAsStated ==
    LET c == last_op.pinw
        g == last_op.gapw
        polys == last_op.polys
    IN  IF c > 0
        THEN /\ Len(polys) = 2
             /\ \A n \in 1..2 :
                   /\ polys[n].layer = LAYER_PIN
                   /\ polys[n].b0 - polys[n].a0 = g
                   /\ polys[n].a1 = polys[n].a0
                   /\ polys[n].b1 = polys[n].b0
             /\ polys[1].a0 + polys[1].b0 = -(c + g)
             /\ polys[2].a0 + polys[2].b0 = c + g
        ELSE /\ Len(polys) = 1
             /\ polys[1].layer = LAYER_PIN
             /\ polys[1].b0 - polys[1].a0 = 2 * g
             /\ polys[1].a0 = -polys[1].b0

\* C25 as stated: in single-layer mode a straight segment with conductor
\* width > 0 and gap width > 0 emits exactly two parallel strips on the
\* active layer, each of width gapw, centred at pinw/2 + gapw/2 on either
\* side of the centreline, with a gap between them of width 2 x gapw; with
\* conductor width 0 it emits exactly one solid bar of width 2 x gapw.
C25_StripsTwoGapwApart ==
    SingleLayerStraight =>
        /\ StripsAsStated
        /\ last_op.pinw > 0 =>
              last_op.polys[2].a0 - last_op.polys[1].b0 = 2 * last_op.gapw

\* C25, amended: as above, but the gap between the two strips has the
\* conductor width pinw (the strips' inner edges are at pinw/2 on either
\* side of the centreline).
C25_StripsPinwApart ==
    SingleLayerStraight =>
        /\ StripsAsStated
        /\ last_op.pinw > 0 =>
              last_op.polys[2].a0 - last_op.polys[1].b0 = last_op.pinw

\* two strips drawn with a conductor width that is not twice the gap
\* width, on a manager that a bend has turned
C25_Witness ==
    /\ SingleLayerStraight
    /\ last_op.pinw = 1500
    /\ last_op.gapw = 1000
    /\ Len(last_op.polys) = 2
    /\ last_op.polys[1].dir # 0
    /\ last_op.n >= 2

\* C28: when pinw and gapw are omitted, CPWStraight and CPWBend on a
\* TwoLayerManager draw with that manager's current defaults: the widths
\* given to create_structure or, after a CPWLinearTaper was drawn on it,
\* that taper's stop widths.
C28_OmittedWidthsUseManagerDefaults ==
    (/\ last_op.kind \in {"straight", "bend"}
     /\ last_op.pinw = None
     /\ last_op.gapw = None) =>
        LET m == last_op.before
            stated ==
                IF last_op.kind = "straight"
                THEN CPWStraight(m, last_op.length, m.device_pinw,
                                 m.device_gapw, LAYER_PIN, LAYER_GAP)
                ELSE CPWBend(m, last_op.angle, m.device_pinw,
                             m.device_gapw, 20000, LAYER_PIN, LAYER_GAP)
        IN  /\ last_op.err = "none"
            /\ last_op.polys = stated.polys

\* the cells of the dose-test grids placed on the chip (add_dose_test and
\* add_manhattan_dose_test), in the order placed
DoseTestCells ==
    UNION {{chip.grids[g].cells[c] : c \in 1..Len(chip.grids[g].cells)} :
              g \in {h \in 1..Len(chip.grids) :
                        chip.grids[h].kind = "dose_test"}}

\* C26: after any sequence of add_dose_test / add_manhattan_dose_test
\* calls, for every junction cell placed the dose that save writes for the
\* cell's conductor layer is the fullcut dose the cell was generated and
\* labelled with, and the dose for its undercut layer is 4 x the cell's
\* undercut dose.  The cell keeps its doses as its label prints them (in
\* uC/cm^2 without decimals); the doses are compared at that precision.
C26_CellDoseIsTableDose ==
    \A cell \in DoseTestCells :
        \A layer_fc \in Layers(cell.pin), layer_uc \in Layers(cell.gap) :
            LET written_fc == FirstDose(dose_table, layer_fc)
                written_uc == FirstDose(dose_table, layer_uc)
            IN  /\ RoundDiv(written_fc, 100) = cell.label.text[1]
                /\ written_uc % 4 = 0
                /\ RoundDiv(written_uc \div 4, 100) = cell.label.text[3]

\* the layers on which the add_* calls so far placed junction geometry
ExposedLayers ==
    UNION {UNION {Layers(chip.grids[g].cells[c].pin)
                      \cup Layers(chip.grids[g].cells[c].gap) :
                    c \in 1..Len(chip.grids[g].cells)} :
              g \in 1..Len(chip.grids)}

\* C27: after any sequence of add_* operations every layer on which one of
\* them placed junction geometry (conductor or undercut) has an entry in
\* the dose table, so that save writes a dose line for it; this includes a
\* chip built only with add_undercut_test.
C27_EveryExposedLayerHasDose ==
    ExposedLayers \subseteq {dose_table[n][1] : n \in 1..Len(dose_table)}

(***************************************************************************)
(* The native components (phidl_native.py): functions that return a new    *)
(* device, with its ports, instead of drawing through a stateful target.   *)
(***************************************************************************)
NativeAngles == {-270, -180, -90, 90, 180, 270}
NativeRadii == {20000, 50000, 100000}
NativeWidths == {<<1500, 1000>>, <<0, 1000>>}
BarLengths == {1000, 2000, 4000}
JunctionWidths == {200, 400}
undercut_margin == 400      \* undercut_width = bar_width + 0.4

Port(midpoint, width, orientation) ==
    [midpoint |-> midpoint, width |-> width, orientation |-> orientation]

\* create_cpw_bend: the extruded arc is kept by its parameters
create_cpw_bend(angle, radius, width, layer) ==
    LET end_x == (radius * Sin(angle)) \div 10000
        end_y == (radius * (10000 - Cos(angle))) \div 10000
    IN  [polys |-> <<[kind |-> "extrude", layer |-> layer,
                      radius |-> radius, angle |-> angle,
                      width |-> width]>>,
         ports |-> [input |-> Port(<<0, 0>>, width, 180),
                    output |-> Port(<<end_x, end_y>>, width, angle)]]

\* CPWBend_native, on the default layer LAYER_PIN[0]
CPWBend_native(angle, radius, pinw, gapw) ==
    LET width == pinw + 2 * gapw
    IN  create_cpw_bend(angle, radius, width, DEFAULT_LAYER_PIN)

\* create_junction_dolan: pin_dev is the left bar, the left taper, the left
\* thin section, the right thin section, the right taper and the right
\* bar; gap_dev is the undercut rectangle
create_junction_dolan(bar_width, bar_length1, bar_length2, taper_length, jj_width, jj_gap, jj_length, layer_pin, layer_gap) ==
    LET total_length == bar_length1 + 2 * taper_length + 2 * jj_length
                        + jj_gap + bar_length2
        x_offset == -Half(total_length)
        x1 == x_offset + bar_length1
        x2 == x1 + taper_length
        x3 == x2 + jj_length
        x4 == x3 + jj_gap
        x5 == x4 + jj_length
        x6 == x5 + taper_length
        Piece(layer, x, length, w1, w2) ==
            Quad(layer, <<x, 0>>, 0, length, -Half(w1), Half(w1), -Half(w2),
                 Half(w2))
        undercut_width == bar_width + undercut_margin
        undercut_length == 2 * taper_length + 2 * jj_length + jj_gap
        undercut_x_offset == -Half(undercut_length)
    IN  [pin_dev |->
            <<Piece(layer_pin, x_offset, bar_length1, bar_width, bar_width),
              Piece(layer_pin, x1, taper_length, bar_width, jj_width),
              Piece(layer_pin, x2, jj_length, jj_width, jj_width),
              Piece(layer_pin, x4, jj_length, jj_width, jj_width),
              Piece(layer_pin, x5, taper_length, jj_width, bar_width),
              Piece(layer_pin, x6, bar_length2, bar_width, bar_width)>>,
         gap_dev |->
            <<Piece(layer_gap, undercut_x_offset, undercut_length,
                    undercut_width, undercut_width)>>]

InitNative ==
    /\ LAYER_PIN = DEFAULT_LAYER_PIN
    /\ LAYER_GAP = DEFAULT_LAYER_GAP
    /\ call = NoCall
    /\ DoseIdle
    /\ grid = NoGrid
    /\ PathIdle

\* the record of a native call: its arguments and the device(s) returned
NativeCalled(fn, args, out) ==
    /\ call' = [fn |-> fn, args |-> args, out |-> out]
    /\ UNCHANGED <<LAYER_PIN, LAYER_GAP, doseVars, grid, pathVars>>

NativeBend ==
    \E angle \in NativeAngles, radius \in NativeRadii, w \in NativeWidths :
        NativeCalled("CPWBend_native",
                     [angle |-> angle, radius |-> radius, pinw |-> w[1],
                      gapw |-> w[2]],
                     CPWBend_native(angle, radius, w[1], w[2]))

NativeJunctionDolan ==
    \E bar_length1 \in BarLengths, bar_length2 \in BarLengths,
       jj_width \in JunctionWidths, jj_gap \in JunctionGaps,
       l \in LayerPairs :
        NativeCalled("create_junction_dolan",
                     [bar_length1 |-> bar_length1,
                      bar_length2 |-> bar_length2, jj_width |-> jj_width,
                      jj_gap |-> jj_gap],
                     create_junction_dolan(bar_w, bar_length1, bar_length2,
                                           taper_l, jj_width, jj_gap, thin_l,
                                           l[1], l[2]))

NextNative ==
    \/ NativeBend
    \/ NativeJunctionDolan

SpecNative == InitNative /\ [][NextNative]_vars

\* C29: for the same angle and radius, starting at the origin with heading
\* 0, the output port of the native create_cpw_bend (midpoint and
\* orientation) is the end position and heading reached by the bridge's
\* bend, for counter-clockwise and for clockwise angles.
C29_NativeBendPortIsBridgeEnd ==
    call.fn = "CPWBend_native" =>
        LET a == call.args
            bridge == add_cpw_bend(
                          create_structure(<<0, 0>>, 0, a.pinw, a.gapw,
                                           a.radius),
                          a.angle, a.radius, a.pinw, a.gapw,
                          DEFAULT_LAYER_PIN, DEFAULT_LAYER_GAP).m
            output == call.out.ports.output
        IN  /\ output.midpoint = bridge.pin_state.last
            /\ output.orientation = bridge.pin_state.last_direction

\* C30: in the native create_junction_dolan, for any bar_length1 and
\* bar_length2, the undercut rectangle covers along the draw axis exactly
\* the conductor device's two tapers, two thin sections and gap, and none
\* of the end bars; the conductor device as a whole is centred at the
\* origin.
C30_NativeUndercutOverJunction ==
    call.fn = "create_junction_dolan" =>
        LET pin == call.out.pin_dev
            gap == call.out.gap_dev
        IN  /\ Len(pin) = 6
            /\ Len(gap) = 1
            /\ AxisStart(gap[1]) = AxisStart(pin[2])
            /\ AxisEnd(gap[1]) = AxisEnd(pin[5])
            /\ AxisStart(gap[1]) = AxisEnd(pin[1])
            /\ AxisEnd(gap[1]) = AxisStart(pin[6])
            /\ CentreTwice(pin) = <<0, 0>>

====
